---- MODULE Spec2Model ----
(***************************************************************************)
(* The Cbz archive layer of the `cbz` crate (src/cbz/src/lib.rs): the      *)
(* CbzWriter with its three naming strategies and its capacity check, the  *)
(* zip stream it wraps, the CbzReader's name-sorted iteration and the      *)
(* CbzWriterInsertionBuilder; the reindex tools built on it                *)
(* (src/cbz-dexter-reindex, src/cbz-reindex): reformat_index and main; and *)
(* the applications that fill or show an archive: cbz-pack (the loop of    *)
(* pack_imgs_to_cbz and the tasks of main behind a mutex), the chapter     *)
(* download of dexter-core with its progress events, the page index of     *)
(* cbz-reader's view, and the search and the downloads of sinister.        *)
(*                                                                         *)
(* Strings are sequences of one-character strings, so that formatting,     *)
(* padding and the byte-wise order of String::cmp are computed rather than *)
(* assumed.                                                                *)
(***************************************************************************)
EXTENDS Integers, Sequences, FiniteSets, TLC

\* pub static MAX_FILE_NUMBER: usize = u16::MAX as usize;
MAX_FILE_NUMBER == 65535

\* pub static COUNTER_SIZE: usize = 5;
COUNTER_SIZE == 5
U16_MAX == 65535
MAX_PARALLEL_DOWNLOAD == 10

\* usize::MAX. It stands for 2^64 - 1, which is beyond the integers of the
\* model checker: only its order against the indices of the model is used.
USIZE_MAX == 2147483647

(***************************************************************************)
(* Bounds of the model.                                                    *)
(***************************************************************************)
\* Entries written one by one to a writer (explicitly represented entries).
MaxFiles == 3

\* A long run of inserts stops at most this far below MAX_FILE_NUMBER.
Headroom == 2

\* How far past 10^COUNTER_SIZE - 1 the indices given to insert_at go in SpecIndex.
Beyond == 2
MaxNameLen == 3
MaxSetBytes == 2
MaxBuilt == 2
MaxRepairLen == 5

\* Images given to cbz-pack (after the leading run of pack_imgs_to_cbz).
MaxPages == 2

\* Image links of a chapter.
MaxLinks == 2

\* Commands of the reader view in flight at a time.
MaxCommands == 3

\* Downloads started from the manga view.
MaxDownloads == 2

VARIABLES
    size,      \* CbzWriter.size
    archive,   \* the entries of the ZipWriter (ZipWriter.files), in write order
    bulk,      \* number of entries written before those of `archive` by a long
               \* run of auto inserts (names 00001.png .. bulk.png), kept as a count
    closed,    \* the ZipWriter's stream was taken by finish() (GenericZipWriter::Closed)
    op,        \* the last operation called
    result,    \* what the last operation returned
    calls,     \* the entries handed to the callback by the last for_each/try_for_each
    builder,   \* the CbzWriterInsertionBuilder in the caller's hands
    built,     \* what build / build_indexed / build_custom_str returned last
    repair,    \* the last call of reformat_index: its arguments and its result
    run,       \* cbz-dexter-reindex's main: its arguments, its position, the
               \* archive it reads and the ZipWriter it fills
    disk,      \* the archive file of each directory
    pack,      \* cbz-pack: the images, the loop or the spawned tasks, the mutex
    download,  \* dexter-core's chapter download: links, tasks, events, the mutex
    view,      \* cbz-reader's CbzReaderView and the commands it has in flight
    app        \* sinister's App and MangaView: hooks, futures, downloads

vars == <<size, archive, bulk, closed, op, result, calls, builder, built, repair, run, disk,
          pack, download, view, app>>

writerVars == <<size, archive, bulk, closed, op, result, calls>>
reindexVars == <<repair, run, disk>>
appVars == <<pack, download, view, app>>
toolVars == <<builder, built, reindexVars, appVars>>

(***************************************************************************)
(* Strings.                                                                *)
(***************************************************************************)
Digits == <<"0", "1", "2", "3", "4", "5", "6", "7", "8", "9">>

IsDigit(c) == \E d \in 1..10 : Digits[d] = c

DigitValue(c) == (CHOOSE d \in 1..10 : Digits[d] = c) - 1

\* The byte of a character (all characters used are ASCII).
ByteOf(c) ==
    IF IsDigit(c) THEN 48 + DigitValue(c)
    ELSE CASE c = "+" -> 43
           [] c = "-" -> 45
           [] c = "." -> 46
           [] c = "/" -> 47
           [] c = "a" -> 97
           [] c = "g" -> 103
           [] c = "j" -> 106
           [] c = "n" -> 110
           [] c = "p" -> 112
           [] c = "x" -> 120

\* String's Ord: lexicographic on bytes, a proper prefix sorts first.
RECURSIVE StrLess(_, _)
StrLess(a, b) ==
    IF b = <<>> THEN FALSE
    ELSE IF a = <<>> THEN TRUE
    ELSE IF ByteOf(Head(a)) # ByteOf(Head(b)) THEN ByteOf(Head(a)) < ByteOf(Head(b))
    ELSE StrLess(Tail(a), Tail(b))

\* Display of an unsigned integer: its decimal digits, no sign, no padding.
RECURSIVE Decimal(_)
Decimal(n) ==
    IF n < 10 THEN <<Digits[n + 1]>>
    ELSE Decimal(n \div 10) \o <<Digits[(n % 10) + 1]>>

\* 10^k
RECURSIVE Pow10(_)
Pow10(k) == IF k = 0 THEN 1 ELSE 10 * Pow10(k - 1)

\* A faulty variant of PadLeft: pads on the right ({:0<5}).
PadRight(s) ==
    IF Len(s) >= COUNTER_SIZE THEN s
    ELSE s \o [i \in 1..(COUNTER_SIZE - Len(s)) |-> "0"]

\* A faulty variant of PadLeft: no padding ({}).
NoPad(s) == s

\* {:0>COUNTER_SIZE$}: fill with '0' on the left up to COUNTER_SIZE characters;
\* a longer text is left as it is (the width is a minimum).
PadLeft(s) ==
    IF Len(s) >= COUNTER_SIZE THEN s
    ELSE [i \in 1..(COUNTER_SIZE - Len(s)) |-> "0"] \o s

\* format!("{:0>COUNTER_SIZE$}.{}", stem, extension)
FormatName(stem, extension) == PadLeft(stem) \o <<".">> \o extension

(***************************************************************************)
(* Inputs.                                                                 *)
(***************************************************************************)
png == <<"p", "n", "g">>
jpg == <<"j", "p", "g">>

\* Built insertions: an extension and the bytes (CbzWriterInsertion).
Insertions ==
    { [extension |-> png, bytes |-> <<1>>],
      [extension |-> jpg, bytes |-> <<2, 3>>] }

\* The indices given to insert_at.
Indices == {1, 10, 99999, 100000}

\* The strings given to insert_custom_str.
CustomStrs ==
    { <<"-", "1">>,
      <<"0", "0", "0", "0", "7", "-", "1">> }

\* What the sink under the ZipWriter does with one insert.
IoOutcomes == {"ok", "start_file_err", "write_all_err"}

\* The narrow inputs used with a failing sink and a nearly full writer.
SinkInsertions == { [extension |-> png, bytes |-> <<1>>] }
SinkIndices == {1}
SinkCustomStrs == { <<"-", "1">> }
SinkRawNames == { <<"c", "o", "v", "e", "r", ".", "p", "n", "g">> }

\* The inputs of the archives that are written and then read back.
ReadInsertions == { [extension |-> png, bytes |-> <<1>>] }
ReadIndices == {1, 2}
ReadCustomStrs == { <<"0", "0", "0", "0", "2", "-", "1">> }

NoIndex == 0 - 1

\* Every string of at most n characters of `chars`.
Strings(chars, n) == UNION {[1..k -> chars] : k \in 0..n}

\* The entry names given to reformat_index, and the widths expected.
RepairChars == {"0", "7", "x", "-", "+"}
EntryNames == Strings(RepairChars, MaxRepairLen)
Widths == {3, COUNTER_SIZE}

BuilderBytes == {<<1>>, <<2, 3>>}

\* The two reindex tools, and the archives they are given to repair.
Tools == {"cbz-dexter-reindex", "cbz-reindex"}
SourceEntries ==
    { [name |-> <<"x", "7", "-", "x">>, bytes |-> <<1>>],
      [name |-> <<"x", "7", "-", "x">>, bytes |-> <<2, 3>>],
      [name |-> <<"0", "0", "7", "-", "x">>, bytes |-> <<2, 3>>],
      [name |-> <<"x", "x">>, bytes |-> <<1>>] }
SourceArchives == UNION {[1..n -> SourceEntries] : n \in 0..MaxFiles}
RunOutcomes == {"ok", "err"}
EntryOutcomes == {"ok", "read_err", "start_file_err", "copy_err"}

\* What a builder is given: file names and paths, extensions, bytes.
PathChars == {"a", ".", "/"}
Filenames == Strings(PathChars, MaxNameLen)
Extensions == {<<>>, png}

\* What the builders of a writing pipeline are given.
PipeFilenames == { <<"a", ".", "p", "n", "g">>, <<"p", "n", "g">> }
PipeExtensions == { <<>> }

\* cbz-pack: what a path of the glob holds for main (which encodes to PNG),
\* the images pack_imgs_to_cbz gets (each with the extension of the format it
\* was read in), how many portrait PNG pages went in before the images looked
\* at, and what encoding an image does.
Contents == {"portrait", "landscape", "unreadable"}
Images == [shape : {"portrait", "landscape"}, extension : {png, jpg}]
PackBases == {0, 9, 99}
EncodeOutcomes == {"ok", "encode_err"}

\* The chapter download: the functions, the file names of the links (one has
\* no extension) and the two ends a channel's receiver can be in.
Apis == {"download_images", "request"}
LinkFilenames == {<<"a", ".">> \o png, <<"a", ".">> \o jpg, <<"a">>}
Receivers == {"open", "dropped"}

\* The reader view: the keys that matter and one that does not.
Keys == {"Right", "Left", "Escape"}

\* sinister: the titles typed into the search form.
Titles == {<<>>, <<"a">>, <<"x">>}

(***************************************************************************)
(* The ZipWriter under the CbzWriter.                                      *)
(***************************************************************************)
\* Number of entries of the zip archive.
ZipLen == bulk + Len(archive)

Entry(filename, bytes, origin) ==
    [name |-> filename, bytes |-> bytes, via |-> origin.via,
     index |-> origin.index, custom |-> origin.custom,
     extension |-> origin.extension]

(***************************************************************************)
(* The values of the insertion builder.                                     *)
(***************************************************************************)
\* Option<T>
None == <<>>
Some(x) == <<x>>

\* InsertionTypeDescriber
Filename(filename) == [kind |-> "Filename", text |-> filename]
Extension(extension) == [kind |-> "Extension", text |-> extension]

\* No builder in the caller's hands (none made yet, or consumed by a build).
\* `given` lists the arguments of the set_bytes* calls made on the builder, kept
\* for the properties.
NoBuilder ==
    [live |-> FALSE, type_describer |-> Extension(<<>>), bytes |-> None, given |-> None]

\* No build result in the caller's hands. `from` is the builder that was built.
NoInsertion ==
    [status |-> "none", extension |-> <<>>, bytes |-> <<>>, type_ |-> "none",
     index |-> NoIndex, custom |-> <<>>, from |-> NoBuilder]

(***************************************************************************)
(* The values of the reindex tool (src/cbz-dexter-reindex).                *)
(***************************************************************************)
\* Result<String>
Ok(value) == [ok |-> TRUE, value |-> value, error |-> "none"]
Err(error) == [ok |-> FALSE, value |-> <<>>, error |-> error]

\* No call of reformat_index yet. `again` tells that the name of the call is
\* the result of the call before it.
NoRepair ==
    [name |-> <<>>, expected_length |-> 0, out |-> Err("not called"), again |-> FALSE]

\* The directories of the model; each holds at most one file, named as the
\* archive is.
Dirs == {"in", "out"}

\* main has not started.
NoRun ==
    [pc |-> "idle", tool |-> "cbz-dexter-reindex", archive_dir |-> "in", outdir |-> "in",
     source |-> <<>>, files |-> <<>>, next |-> 1, fixed |-> <<>>, error |-> "none"]

\* Before a run: the archive to repair is in "in", and "out" has no file.
SourceOnDisk == [d \in Dirs |-> IF d = "in" THEN "source" ELSE "absent"]

(***************************************************************************)
(* The values of the applications built on the writer.                     *)
(***************************************************************************)
\* cbz-pack has not started. `contents` are the images in glob order, `base`
\* the number of leading images already packed by a long run, `next`/`half`
\* the position of pack_imgs_to_cbz's loop, `tasks` the tasks spawned by main
\* and `lock` the task holding the Mutex<CbzWriter> (0: nobody).
NoPack ==
    [pc |-> "idle", mode |-> "none", autosplit |-> FALSE, contents |-> <<>>,
     base |-> 0, next |-> 1, half |-> 0, tasks |-> <<>>, lock |-> 0]

\* No chapter download yet. `api` is the function called (download_images of
\* dexter-core's lib.rs or ArchiveDownload::request), `links` the file names of
\* the chapter's image links, `tasks` the state of the task spawned for each
\* link, `spawned` the number of tasks the buffered stream has spawned,
\* `handed` the links whose result it has handed on, `current` the link and
\* `consumer` the position of try_for_each's closure (0: between two links),
\* `lock` whether the closure holds the Mutex<CbzWriter>, `rx` the receiving
\* end of the progress channel and `events` what was sent to it (each event
\* with the link it is about, 0 for none).
NoDownload ==
    [pc |-> "idle", api |-> "none", links |-> <<>>, tasks |-> <<>>, spawned |-> 0,
     handed |-> {}, current |-> 0, consumer |-> "next", lock |-> FALSE,
     rx |-> "open", events |-> <<>>, error |-> "none"]

\* ImageDownloadEvent / archive_download::Event
Event(kind, link) == [kind |-> kind, link |-> link]

\* cbz-reader's view before Application::new. `state` and `index` are
\* CbzReaderState (Init, or Ready with its index), `commands` the indices of
\* the read_from_cbz commands in flight, `last` the kind of the last message
\* handled, `underflow` whether a subtraction of update went below 0 and
\* `panicked` whether update panicked.
NoView ==
    [pc |-> "idle", cbz_len |-> 0, state |-> "Init", index |-> 0, commands |-> <<>>,
     last |-> "none", underflow |-> FALSE, panicked |-> FALSE]

\* HashMap::get of a key the map does not hold.
Absent == 0 - 1

\* The chapters of the manga shown, by their number; the id of a chapter (in
\* the API a UUID) and the file name the view gives its archive
\* ("{manga} - {chapter} - {title}.cbz").
Chapters == {"1", "2"}
IdOf(chapter) == <<"id", chapter>>
FileNameOf(chapter) == <<"m", " - ", chapter, " - ", "t", ".cbz">>
ProgressKeys == { IdOf(chapter) : chapter \in Chapters }
                    \cup { FileNameOf(chapter) : chapter \in Chapters }

\* sinister's App as first rendered: the hooks of App (the search text, the
\* mangas found, the loading flag), the state of the search future, the
\* progress map shared with MangaView (a percentage or Absent per key) and
\* the downloads MangaView has started, each with its chapter, the number of
\* its pages and the events its receiver has handled.
NoApp ==
    [mangas_search |-> <<>>, mangas |-> "None", manga_search_loading |-> FALSE,
     search |-> "none",
     download_progress |-> [key \in ProgressKeys |-> Absent],
     downloads |-> <<>>]

(***************************************************************************)
(* CbzWriter.                                                              *)
(***************************************************************************)
Init ==
    /\ size = 0
    /\ archive = <<>>
    /\ bulk = 0
    /\ closed = FALSE
    /\ op = "new"
    /\ result = "none"
    /\ calls = <<>>
    /\ builder = NoBuilder
    /\ built = NoInsertion
    /\ repair = NoRepair
    /\ run = NoRun
    /\ disk = SourceOnDisk
    /\ pack = NoPack
    /\ download = NoDownload
    /\ view = NoView
    /\ app = NoApp

\* A faulty variant of insert_from_bytes_slice_with_options: no capacity check.
insert_without_capacity_check(filename, bytes, origin, io) ==
    IF closed \/ io = "start_file_err"
    THEN /\ result' = "Zip"
         /\ UNCHANGED <<size, archive>>
    ELSE IF io = "write_all_err"
    THEN /\ \E k \in 0..(Len(bytes) - 1) :
               archive' = Append(archive, Entry(filename, SubSeq(bytes, 1, k), origin))
         /\ result' = "IO"
         /\ UNCHANGED size
    ELSE /\ archive' = Append(archive, Entry(filename, bytes, origin))
         /\ size' = size + 1
         /\ result' = "Ok"

\* A faulty variant of insert_from_bytes_slice_with_options: the capacity check is
\* off by one (size > MAX_FILE_NUMBER).
insert_with_late_capacity_check(filename, bytes, origin, io) ==
    IF size > MAX_FILE_NUMBER
    THEN /\ result' = "CbzTooLarge"
         /\ UNCHANGED <<size, archive>>
    ELSE IF closed \/ io = "start_file_err"
    THEN /\ result' = "Zip"
         /\ UNCHANGED <<size, archive>>
    ELSE IF io = "write_all_err"
    THEN /\ \E k \in 0..(Len(bytes) - 1) :
               archive' = Append(archive, Entry(filename, SubSeq(bytes, 1, k), origin))
         /\ result' = "IO"
         /\ UNCHANGED size
    ELSE /\ archive' = Append(archive, Entry(filename, bytes, origin))
         /\ size' = size + 1
         /\ result' = "Ok"

\* A faulty variant of insert_from_bytes_slice_with_options: the result of start_file
\* is dropped instead of returned (no `?`).
insert_ignoring_start_file_error(filename, bytes, origin, io) ==
    IF size >= MAX_FILE_NUMBER
    THEN /\ result' = "CbzTooLarge"
         /\ UNCHANGED <<size, archive>>
    ELSE IF closed \/ io = "start_file_err"
    THEN /\ result' = "IO"
         /\ size' = size + 1
         /\ UNCHANGED archive
    ELSE IF io = "write_all_err"
    THEN /\ \E k \in 0..(Len(bytes) - 1) :
               archive' = Append(archive, Entry(filename, SubSeq(bytes, 1, k), origin))
         /\ result' = "IO"
         /\ UNCHANGED size
    ELSE /\ archive' = Append(archive, Entry(filename, bytes, origin))
         /\ size' = size + 1
         /\ result' = "Ok"

\* CbzWriter::insert_from_bytes_slice_with_options. `origin` records which
\* operation named the entry; `io` is what the sink does.
\*   start_file: refused by a closed stream, or fails writing the header
\*     (nothing is added); otherwise the entry is pushed to the zip's files.
\*   write_all: on failure a strict prefix of the bytes is in the entry, the
\*     entry stays in the zip and size is not incremented.
insert_from_bytes_slice_with_options(filename, bytes, origin, io) ==
    IF size >= MAX_FILE_NUMBER
    THEN /\ result' = "CbzTooLarge"
         /\ UNCHANGED <<size, archive>>
    ELSE IF closed \/ io = "start_file_err"
    THEN /\ result' = "Zip"
         /\ UNCHANGED <<size, archive>>
    ELSE IF io = "write_all_err"
    THEN /\ \E k \in 0..(Len(bytes) - 1) :
               archive' = Append(archive, Entry(filename, SubSeq(bytes, 1, k), origin))
         /\ result' = "IO"
         /\ UNCHANGED size
    ELSE /\ archive' = Append(archive, Entry(filename, bytes, origin))
         /\ size' = size + 1
         /\ result' = "Ok"

\* A faulty variant of AutoIndex: numbering from the current size.
AutoIndexFromZero(sz) == sz

\* The number insert() formats: self.size() + 1.
AutoIndex(sz) == sz + 1

\* CbzWrite::insert
insert(insertion, io) ==
    /\ op' = "insert"
    /\ insert_from_bytes_slice_with_options(
           FormatName(Decimal(AutoIndex(size)), insertion.extension),
           insertion.bytes,
           [via |-> "insert", index |-> AutoIndex(size), custom |-> <<>>,
            extension |-> insertion.extension],
           io)
    /\ UNCHANGED <<bulk, closed, calls>>

\* CbzWrite::insert_at
insert_at(insertion, index, io) ==
    /\ op' = "insert_at"
    /\ insert_from_bytes_slice_with_options(
           FormatName(Decimal(index), insertion.extension),
           insertion.bytes,
           [via |-> "insert_at", index |-> index, custom |-> <<>>,
            extension |-> insertion.extension],
           io)
    /\ UNCHANGED <<bulk, closed, calls>>

\* CbzWrite::insert_custom_str
insert_custom_str(insertion, custom_str, io) ==
    /\ op' = "insert_custom_str"
    /\ insert_from_bytes_slice_with_options(
           FormatName(custom_str, insertion.extension),
           insertion.bytes,
           [via |-> "insert_custom_str", index |-> NoIndex, custom |-> custom_str,
            extension |-> insertion.extension],
           io)
    /\ UNCHANGED <<bulk, closed, calls>>

\* A direct call of the public insert_from_bytes_slice_with_options.
insert_raw(filename, insertion, io) ==
    /\ op' = "insert_from_bytes_slice_with_options"
    /\ insert_from_bytes_slice_with_options(
           filename,
           insertion.bytes,
           [via |-> "insert_from_bytes_slice_with_options", index |-> NoIndex,
            custom |-> <<>>, extension |-> insertion.extension],
           io)
    /\ UNCHANGED <<bulk, closed, calls>>

\* CbzWriter::finish: ZipWriter::finish writes the central directory and takes
\* the stream out of the writer, which is closed from then on; on a closed
\* writer, or when the sink fails, it returns the error and changes nothing.
finish(io) ==
    /\ op' = "finish"
    /\ IF closed \/ io # "ok"
       THEN /\ result' = "Zip"
            /\ UNCHANGED closed
       ELSE /\ result' = "Ok"
            /\ closed' = TRUE
    /\ UNCHANGED <<size, archive, bulk, calls>>

\* A caller's loop of n auto inserts of png pages into a new writer, all of
\* them successful (the merge loop): the entries 00001.png .. n.png, kept as
\* their count.
insert_run(n) ==
    /\ size = 0 /\ archive = <<>> /\ bulk = 0 /\ ~closed
    /\ n <= MAX_FILE_NUMBER
    /\ op' = "insert"
    /\ result' = "Ok"
    /\ size' = n
    /\ bulk' = n
    /\ UNCHANGED <<archive, closed, calls>>

(***************************************************************************)
(* CbzReader, opened on the finished archive.                              *)
(***************************************************************************)
\* ZipArchive::file_names: the keys of names_map, one per distinct name.
file_names == { archive[i].name : i \in DOMAIN archive }

\* ZipArchive::by_name: names_map holds the index of the last entry read from
\* the central directory under that name.
read_by_name(name) ==
    LET i == CHOOSE i \in DOMAIN archive :
                 /\ archive[i].name = name
                 /\ \A j \in DOMAIN archive : archive[j].name = name => j <= i
    IN  [name |-> archive[i].name, bytes |-> archive[i].bytes]

\* CbzReader::read_by_name, called by the owner of the reader
read_file(name) ==
    /\ closed
    /\ name \in file_names
    /\ op' = "read_by_name"
    /\ calls' = <<[name |-> read_by_name(name).name,
                   bytes |-> read_by_name(name).bytes,
                   returned |-> "()"]>>
    /\ result' = "Ok"
    /\ UNCHANGED <<size, archive, bulk, closed>>

\* A faulty variant of Sorted: the names in write order of their last entry.
Unsorted(names) ==
    LET last(nm) == CHOOSE i \in DOMAIN archive :
                        /\ archive[i].name = nm
                        /\ \A j \in DOMAIN archive : archive[j].name = nm => j <= i
        RECURSIVE ord(_)
        ord(S) == IF S = {} THEN <<>>
                  ELSE LET m == CHOOSE x \in S : \A y \in S : last(x) <= last(y)
                       IN  <<m>> \o ord(S \ {m})
    IN  ord(names)

\* file_names.sort(): ascending in String's order.
RECURSIVE Sorted(_)
Sorted(names) ==
    IF names = {} THEN <<>>
    ELSE LET m == CHOOSE x \in names : \A y \in names : x = y \/ StrLess(x, y)
         IN  <<m>> \o Sorted(names \ {m})

\* What a callback returns: Ok(()) or one of its errors.
CallbackResults == {"Ok", "E1", "E2"}

\* CbzRead::for_each (its callback returns nothing)
for_each ==
    /\ closed
    /\ op' = "for_each"
    /\ LET sorted == Sorted(file_names)
       IN  calls' = [k \in 1..Len(sorted) |->
                        [name |-> read_by_name(sorted[k]).name,
                         bytes |-> read_by_name(sorted[k]).bytes,
                         returned |-> "()"]]
    /\ result' = "Ok"
    /\ UNCHANGED <<size, archive, bulk, closed>>

\* A faulty variant of TryLoop: the callback's error is kept and returned after
\* the last entry (no `?` inside the loop).
RECURSIVE TryLoopToTheEnd(_, _, _)
TryLoopToTheEnd(sorted, cb, k) ==
    IF k > Len(sorted) THEN [calls |-> <<>>, result |-> "Ok"]
    ELSE LET call == [name |-> read_by_name(sorted[k]).name,
                      bytes |-> read_by_name(sorted[k]).bytes,
                      returned |-> cb[k]]
             rest == TryLoopToTheEnd(sorted, cb, k + 1)
         IN  [calls |-> <<call>> \o rest.calls,
              result |-> IF cb[k] # "Ok" THEN cb[k] ELSE rest.result]

\* The loop of try_for_each from the k-th sorted name on:
\*     for file_name in file_names { f(self.read_by_name(&file_name))?; }  Ok(())
\* cb[k] is what the callback returns at its k-th call. Gives the calls made
\* and the value returned.
RECURSIVE TryLoop(_, _, _)
TryLoop(sorted, cb, k) ==
    IF k > Len(sorted) THEN [calls |-> <<>>, result |-> "Ok"]
    ELSE LET call == [name |-> read_by_name(sorted[k]).name,
                      bytes |-> read_by_name(sorted[k]).bytes,
                      returned |-> cb[k]]
         IN  IF cb[k] # "Ok"
             THEN [calls |-> <<call>>, result |-> cb[k]]
             ELSE LET rest == TryLoop(sorted, cb, k + 1)
                  IN  [calls |-> <<call>> \o rest.calls, result |-> rest.result]

\* CbzRead::try_for_each with a callback that returns cb[k] at its k-th call.
try_for_each(cb) ==
    /\ closed
    /\ op' = "try_for_each"
    /\ LET looped == TryLoop(Sorted(file_names), cb, 1)
       IN  /\ calls' = looped.calls
           /\ result' = looped.result
    /\ UNCHANGED <<size, archive, bulk, closed>>

(***************************************************************************)
(* CbzWriterInsertionBuilder.                                              *)
(***************************************************************************)
\* CbzWriterInsertionBuilder::from_filename
from_filename(filename) ==
    builder' = [live |-> TRUE, type_describer |-> Filename(filename),
                bytes |-> None, given |-> None]

\* CbzWriterInsertionBuilder::from_extension
from_extension(extension) ==
    builder' = [live |-> TRUE, type_describer |-> Extension(extension),
                bytes |-> None, given |-> None]

\* A faulty variant of set_bytes: bytes already set are kept.
set_bytes_once(bytes) ==
    /\ builder.live
    /\ builder' = [builder EXCEPT !.bytes = IF @ = None THEN Some(bytes) ELSE @,
                                  !.given = Append(@, bytes)]

\* CbzWriterInsertionBuilder::set_bytes, set_bytes_ref, and
\* set_bytes_from_reader when the reader gives `bytes`.
set_bytes(bytes) ==
    /\ builder.live
    /\ builder' = [builder EXCEPT !.bytes = Some(bytes), !.given = Append(@, bytes)]

\* CbzWriterInsertionBuilder::set_bytes_from_reader when read_to_end fails:
\* the builder is consumed and an error is returned in its place.
set_bytes_from_reader_err ==
    /\ builder.live
    /\ builder' = NoBuilder

\* The pieces of a path between its '/' separators, empty ones included.
RECURSIVE SplitSlash(_)
SplitSlash(s) ==
    IF \A i \in DOMAIN s : s[i] # "/" THEN <<s>>
    ELSE LET i == CHOOSE j \in DOMAIN s : s[j] = "/" /\ \A h \in 1..(j - 1) : s[h] # "/"
         IN  <<SubSeq(s, 1, i - 1)>> \o SplitSlash(SubSeq(s, i + 1, Len(s)))

\* The components kept of the pieces of a path: every "." piece is dropped but
\* one that starts a relative path.
KeepComponents(pieces, hasRoot) ==
    LET nth[k \in 0..Len(pieces)] ==
            IF k = 0 THEN <<>>
            ELSE IF pieces[k] # <<".">> \/ (k = 1 /\ ~hasRoot)
            THEN Append(nth[k - 1], pieces[k])
            ELSE nth[k - 1]
    IN  nth[Len(pieces)]

\* std::path::Path::components on a Unix path, the root left out: empty pieces
\* are dropped, and so is every "." piece but one that starts a relative path.
Components(path) ==
    KeepComponents(SelectSeq(SplitSlash(path), LAMBDA c : c # <<>>),
                   path # <<>> /\ path[1] = "/")

\* The last component when it is a normal one.
LastNormal(comps) ==
    IF comps = <<>> THEN None
    ELSE IF comps[Len(comps)] \in {<<".">>, <<".", ".">>} THEN None
    ELSE Some(comps[Len(comps)])

\* Path::file_name
path_file_name(path) == LastNormal(Components(path))

\* The position of the last '.' of a file name that has one.
LastDotOf(file) ==
    CHOOSE i \in DOMAIN file : file[i] = "." /\ \A j \in (i + 1)..Len(file) : file[j] # "."

\* The extension of a file name: the part after its last '.'; none without a
\* '.', or when the only '.' starts the file name.
ExtensionOf(file) ==
    IF \A i \in DOMAIN file : file[i] # "." THEN None
    ELSE IF LastDotOf(file) = 1 THEN None
    ELSE Some(SubSeq(file, LastDotOf(file) + 1, Len(file)))

\* Option::and_then applied to a file name and ExtensionOf
ExtensionOfFileName(name) == IF name = None THEN None ELSE ExtensionOf(name[1])

\* A faulty variant of path_extension: the text after the last '.' of the whole
\* string, whatever comes before it.
text_after_last_dot(path) ==
    IF \A i \in DOMAIN path : path[i] # "." THEN None
    ELSE Some(SubSeq(path, LastDotOf(path) + 1, Len(path)))

\* Utf8Path::extension (std Path::extension): of the file name, the part after
\* its last '.'; none without a file name, without a '.', or when the only
\* '.' starts the file name.
path_extension(path) == ExtensionOfFileName(path_file_name(path))

BuildError(b, error) == [NoInsertion EXCEPT !.status = error, !.from = b]

\* .and_then(|extension| (!extension.is_empty()).then_some(extension.to_string()))
NonEmpty(extension) ==
    IF extension # None /\ extension[1] # <<>> THEN extension ELSE None

\* The extension that inner_build resolves from the type describer, if any.
ResolveExtension(type_describer) ==
    IF type_describer.kind = "Extension"
    THEN IF type_describer.text = <<>> THEN None ELSE Some(type_describer.text)
    ELSE NonEmpty(path_extension(type_describer.text))

\* The end of inner_build, with builder b's bytes and the extension resolved.
Insertion(b, bytes, extension, type_, index, custom) ==
    IF extension = None THEN BuildError(b, "CbzInsertionNoExtension")
    ELSE [status |-> "Ok", extension |-> extension[1], bytes |-> bytes,
          type_ |-> type_, index |-> index, custom |-> custom, from |-> b]

\* A faulty variant of inner_build: an insertion without bytes is built empty.
inner_build_default_bytes(b, type_, index, custom) ==
    Insertion(b, IF b.bytes = None THEN <<>> ELSE b.bytes[1],
              ResolveExtension(b.type_describer), type_, index, custom)

\* CbzWriterInsertionBuilder::inner_build of builder b: the Result it returns.
inner_build(b, type_, index, custom) ==
    IF b.bytes = None THEN BuildError(b, "CbzInsertionNoBytes")
    ELSE Insertion(b, b.bytes[1], ResolveExtension(b.type_describer), type_, index, custom)

\* CbzWriterInsertionBuilder::build
build ==
    /\ builder.live
    /\ built' = inner_build(builder, "Auto", NoIndex, <<>>)
    /\ builder' = NoBuilder

\* CbzWriterInsertionBuilder::build_indexed
build_indexed(index) ==
    /\ builder.live
    /\ built' = inner_build(builder, "Indexed", index, <<>>)
    /\ builder' = NoBuilder

\* CbzWriterInsertionBuilder::build_custom_str
build_custom_str(s) ==
    /\ builder.live
    /\ built' = inner_build(builder, "CustomStr", NoIndex, s)
    /\ builder' = NoBuilder

(***************************************************************************)
(* reformat_index of the reindex tool.                                     *)
(***************************************************************************)
\* char::is_numeric, on the ASCII characters of the model
IsNumeric(c) == IsDigit(c)

\* The value of a string of decimal digits.
RECURSIVE NumberOf(_)
NumberOf(s) ==
    IF s = <<>> THEN 0
    ELSE 10 * NumberOf(SubSeq(s, 1, Len(s) - 1)) + DigitValue(s[Len(s)])

\* str::parse::<u16>: an optional '+', then at least one decimal digit and
\* nothing else, of a value that fits 16 bits.
parse_u16(s) ==
    LET digits == IF s # <<>> /\ s[1] = "+" THEN Tail(s) ELSE s
    IN  IF digits = <<>> \/ \E i \in DOMAIN digits : ~IsDigit(digits[i]) THEN None
        ELSE IF NumberOf(digits) > U16_MAX THEN None
        ELSE Some(NumberOf(digits))

\* format!("{s:0>width$}"): s with '0's on its left up to `width` characters.
PadLeftTo(s, width) ==
    IF Len(s) >= width THEN s ELSE [i \in 1..(width - Len(s)) |-> "0"] \o s

\* reformat_index(cbz_file, expected_length), `name` being cbz_file.name():
\* the first character is kept when numeric and dropped otherwise, the
\* characters after it up to the next '-' are added to the index, and what
\* follows that '-' is the rest.
reformat_index(name, expected_length) ==
    IF name = <<>> THEN Err("filename is empty")
    ELSE LET rest == Tail(name)
             dash == IF \E i \in DOMAIN rest : rest[i] = "-"
                     THEN CHOOSE i \in DOMAIN rest :
                              rest[i] = "-" /\ \A j \in 1..(i - 1) : rest[j] # "-"
                     ELSE Len(rest) + 1
             index == (IF IsNumeric(name[1]) THEN <<name[1]>> ELSE <<>>)
                          \o SubSeq(rest, 1, dash - 1)
         IN  IF Len(index) > expected_length \/ parse_u16(index) = None
             THEN Err("invalid index")
             ELSE Ok(PadLeftTo(index, expected_length) \o <<"-">>
                         \o SubSeq(rest, dash + 1, Len(rest)))

\* The first call of reformat_index, on an entry name.
Reformat ==
    /\ repair = NoRepair
    /\ \E name \in EntryNames, expected_length \in Widths :
           repair' = [name |-> name, expected_length |-> expected_length,
                      out |-> reformat_index(name, expected_length), again |-> FALSE]
    /\ UNCHANGED <<writerVars, builder, built, run, disk, appVars>>

\* A call of reformat_index on the name that the call before it returned.
ReformatAgain ==
    /\ repair.out.ok /\ ~repair.again
    /\ repair' = [name |-> repair.out.value, expected_length |-> repair.expected_length,
                  out |-> reformat_index(repair.out.value, repair.expected_length),
                  again |-> TRUE]
    /\ UNCHANGED <<writerVars, builder, built, run, disk, appVars>>

NextRepair == Reformat \/ ReformatAgain

\* reformat_index on every entry name, and again on each of its results.
SpecRepair == Init /\ [][NextRepair]_vars

\* The position of the first '-' of s, or one past its end when it has none.
FirstDash(s) ==
    IF \E i \in DOMAIN s : s[i] = "-"
    THEN CHOOSE i \in DOMAIN s : s[i] = "-" /\ \A j \in 1..(i - 1) : s[j] # "-"
    ELSE Len(s) + 1

\* The numeric candidate of a name: what stands before its first '-', without
\* a leading character that is not a digit.
Candidate(name) ==
    LET prefix == SubSeq(name, 1, FirstDash(name) - 1)
    IN  IF prefix # <<>> /\ ~IsDigit(prefix[1]) THEN Tail(prefix) ELSE prefix

\* The suffix of a name: everything after its first '-', nothing without one.
Suffix(name) == SubSeq(name, FirstDash(name) + 1, Len(name))

\* dexter_core::update_filename_index, called by cbz-reindex: the name is split
\* at its first '-' into a numeric candidate and a suffix; the candidate, a
\* leading character that is not a digit left out, is the index.
update_filename_index(name, expected_width) ==
    IF name = <<>> THEN Err("EmptyName")
    ELSE LET index == parse_u16(Candidate(name))
         IN  IF Len(Candidate(name)) > expected_width \/ index = None
             THEN Err("InvalidIndex")
             ELSE Ok(PadLeftTo(Decimal(index[1]), expected_width) \o <<"-">> \o Suffix(name))

(***************************************************************************)
(* main of the reindex tools (cbz-dexter-reindex, cbz-reindex).            *)
(***************************************************************************)
\* The new name of an entry: reformat_index(&cbz_file, 3) in
\* cbz-dexter-reindex, update_filename_index(file.name(), 3) in cbz-reindex.
NewFilename(tool, name) ==
    IF tool = "cbz-dexter-reindex" THEN reformat_index(name, 3)
    ELSE update_filename_index(name, 3)

\* The entries in the order main visits them: try_for_each's (each name once,
\* sorted, the last entry of a name read) in cbz-dexter-reindex, by_index's
\* (every entry, as written) in cbz-reindex.
Visited(tool, source) ==
    IF tool = "cbz-dexter-reindex"
    THEN LET sorted == Sorted({source[i].name : i \in DOMAIN source})
             last(name) == CHOOSE i \in DOMAIN source :
                               /\ source[i].name = name
                               /\ \A j \in DOMAIN source : source[j].name = name => j <= i
         IN  [k \in 1..Len(sorted) |-> source[last(sorted[k])]]
    ELSE source

Failed(error) == [run EXCEPT !.pc = "failed", !.error = error]

\* main up to the loop: the arguments are parsed, the ZipWriter is made over
\* a buffer in memory, and the archive is opened; `files` are its entries in
\* the order of the loop.
main_open(tool, outdir, source, io) ==
    /\ run.pc = "idle"
    /\ disk["in"] = "source"
    /\ run' = [pc |-> IF io = "ok" THEN "loop" ELSE "failed",
               tool |-> tool, archive_dir |-> "in", outdir |-> outdir,
               source |-> source, files |-> Visited(tool, source),
               next |-> 1, fixed |-> <<>>,
               error |-> IF io = "ok" THEN "none" ELSE "open"]
    /\ UNCHANGED disk

\* A faulty variant of main_entry: an entry that fails is skipped.
main_entry_skipping(io) ==
    /\ run.pc = "loop"
    /\ run.next <= Len(run.files)
    /\ LET file == run.files[run.next]
           new_filename == NewFilename(run.tool, file.name)
       IN  IF io = "ok" /\ new_filename.ok
           THEN run' = [run EXCEPT !.next = @ + 1,
                                   !.fixed = Append(@, [name |-> new_filename.value,
                                                        bytes |-> file.bytes])]
           ELSE run' = [run EXCEPT !.next = @ + 1]
    /\ UNCHANGED disk

\* One turn of the loop: the entry is read, its name repaired, a file of the
\* new name started in the ZipWriter and the entry's bytes copied to it; each
\* of the four can fail, and `?` then ends main with the error.
main_entry(io) ==
    /\ run.pc = "loop"
    /\ run.next <= Len(run.files)
    /\ LET file == run.files[run.next]
           new_filename == NewFilename(run.tool, file.name)
       IN  IF io = "read_err" \/ ~new_filename.ok \/ io = "start_file_err"
           THEN run' = Failed("entry")
           ELSE IF io = "copy_err"
           THEN \E k \in 0..(Len(file.bytes) - 1) :
                    run' = [Failed("entry") EXCEPT
                                !.fixed = Append(@, [name |-> new_filename.value,
                                                     bytes |-> SubSeq(file.bytes, 1, k)])]
           ELSE run' = [run EXCEPT !.next = @ + 1,
                                   !.fixed = Append(@, [name |-> new_filename.value,
                                                        bytes |-> file.bytes])]
    /\ UNCHANGED disk

\* fixed_archive_writer.finish()?, after the loop
main_finish(io) ==
    /\ run.pc = "loop"
    /\ run.next > Len(run.files)
    /\ run' = IF io = "ok" THEN [run EXCEPT !.pc = "create"] ELSE Failed("finish")
    /\ UNCHANGED disk

\* File::create(current_dir()?.join(args.outdir).join(archive_filename))?:
\* the file of the output directory is created, or emptied when there is one.
main_create(io) ==
    /\ run.pc = "create"
    /\ IF io = "ok"
       THEN /\ run' = [run EXCEPT !.pc = "write"]
            /\ disk' = [disk EXCEPT ![run.outdir] = "created"]
       ELSE /\ run' = Failed("create")
            /\ UNCHANGED disk

\* fixed_archive.write_all(..)?; Ok(())
main_write(io) ==
    /\ run.pc = "write"
    /\ IF io = "ok"
       THEN /\ run' = [run EXCEPT !.pc = "done"]
            /\ disk' = [disk EXCEPT ![run.outdir] = "fixed"]
       ELSE /\ run' = Failed("write")
            /\ UNCHANGED disk

MainOpen ==
    /\ \E tool \in Tools, outdir \in Dirs, source \in SourceArchives, io \in RunOutcomes :
           main_open(tool, outdir, source, io)
    /\ UNCHANGED <<writerVars, builder, built, repair, appVars>>

MainEntry ==
    /\ \E io \in EntryOutcomes : main_entry(io)
    /\ UNCHANGED <<writerVars, builder, built, repair, appVars>>

MainFinish ==
    /\ \E io \in RunOutcomes : main_finish(io)
    /\ UNCHANGED <<writerVars, builder, built, repair, appVars>>

MainCreate ==
    /\ \E io \in RunOutcomes : main_create(io)
    /\ UNCHANGED <<writerVars, builder, built, repair, appVars>>

MainWrite ==
    /\ \E io \in RunOutcomes : main_write(io)
    /\ UNCHANGED <<writerVars, builder, built, repair, appVars>>

NextReindex == MainOpen \/ MainEntry \/ MainFinish \/ MainCreate \/ MainWrite

\* One run of a reindex tool on an archive, into either directory.
SpecReindex == Init /\ [][NextReindex]_vars

(***************************************************************************)
(* cbz-pack: pack_imgs_to_cbz (src/cbz-pack/src/lib.rs), one loop over the  *)
(* images, and main (src/cbz-pack/src/main.rs), one spawned task per image  *)
(* sharing the writer behind a std::sync::Mutex.                           *)
(***************************************************************************)
\* The encoded bytes of an image: they tell the input position of the page
\* and which part of it they are (0: the whole page, 1 and 2: the halves in
\* reading order).
Encoded(index, half) == <<index, half>>

\* "" / "-1" / "-2"
HalfSuffix(half) == IF half = 0 THEN <<>> ELSE <<"-">> \o Decimal(half)

\* A faulty variant of PackName: the position is not padded ({i}-1).
PackNameUnpadded(index, half) == Decimal(index) \o HalfSuffix(half)

\* pack_imgs_to_cbz: format!("{i:0>COUNTER_SIZE$}"), "..-1", "..-2"
PackName(index, half) == PadLeft(Decimal(index)) \o HalfSuffix(half)

\* pack_imgs_to_cbz up to its loop: a new writer; the first `base` images are
\* taken to be portrait pages that went in (entries 00000.png ..), so that the
\* loop continues at position `base`.
pack_imgs_to_cbz(imgs, autosplit, base) ==
    /\ pack.pc = "idle"
    /\ size = 0 /\ archive = <<>> /\ bulk = 0 /\ ~closed
    /\ pack' = [NoPack EXCEPT !.pc = "loop", !.mode = "lib", !.autosplit = autosplit,
                              !.contents = imgs, !.base = base,
                              !.half = IF /\ imgs # <<>>
                                          /\ autosplit
                                          /\ imgs[1].shape = "landscape"
                                       THEN 1 ELSE 0]
    /\ size' = base
    /\ bulk' = base
    /\ op' = "insert_custom_str"
    /\ result' = "Ok"
    /\ UNCHANGED <<archive, closed, calls>>

\* One Image::insert_into_cbz_writer of the loop of pack_imgs_to_cbz (the
\* page, or one half of a split page): encode in the image's format, build
\* with that format's extension, insert_custom_str; the first error ends the
\* loop (`?`).
pack_imgs_insert(io) ==
    /\ pack.pc = "loop" /\ pack.mode = "lib"
    /\ pack.next <= Len(pack.contents)
    /\ LET i == pack.base + pack.next - 1
           continue ==
               IF pack.half = 1 THEN [pack EXCEPT !.half = 2]
               ELSE [pack EXCEPT !.next = @ + 1,
                                 !.half = IF /\ pack.next < Len(pack.contents)
                                             /\ pack.autosplit
                                             /\ pack.contents[pack.next + 1].shape = "landscape"
                                          THEN 1 ELSE 0]
       IN  IF io = "encode_err"
           THEN /\ pack' = [pack EXCEPT !.pc = "failed"]
                /\ UNCHANGED writerVars
           ELSE /\ insert_custom_str([extension |-> pack.contents[pack.next].extension,
                                      bytes |-> Encoded(i, pack.half)],
                                     PackName(i, pack.half), io)
                /\ pack' = IF result' = "Ok" THEN continue
                           ELSE [pack EXCEPT !.pc = "failed"]

\* The end of pack_imgs_to_cbz: out_cbz_writer.finish()?
pack_imgs_finish(io) ==
    /\ pack.pc = "loop" /\ pack.mode = "lib"
    /\ pack.next > Len(pack.contents)
    /\ finish(io)
    /\ pack' = [pack EXCEPT !.pc = IF result' = "Ok" THEN "finished" ELSE "failed"]

\* A faulty variant of task_name: the number the auto insert would give.
task_name_auto(index, half) == PadLeft(Decimal(size + 1))

\* main's name of an entry: format!("{index:0>COUNTER_SIZE$}"), "..-1", "..-2"
task_name(index, half) == PadLeft(Decimal(index)) \o HalfSuffix(half)

\* main: get_images_from_glob numbers the paths in glob order (enumerate), the
\* unreadable ones are logged and dropped, and one task is spawned for each
\* image left, with the position it had.
spawn_tasks(contents, autosplit) ==
    /\ pack.pc = "idle"
    /\ size = 0 /\ archive = <<>> /\ bulk = 0 /\ ~closed
    /\ pack' = [NoPack EXCEPT
                  !.pc = "join", !.mode = "main", !.autosplit = autosplit,
                  !.contents = contents,
                  !.tasks = [k \in DOMAIN contents |->
                               [index |-> k - 1,
                                pc |-> IF contents[k] = "unreadable" THEN "none" ELSE "spawned",
                                half |-> 0, oks |-> 0]]]
    /\ UNCHANGED writerVars

\* The task returns: its MutexGuard, if it has one, is dropped.
TaskReturns(t, pc) ==
    [pack EXCEPT !.tasks[t].pc = pc, !.lock = IF pack.lock = t THEN 0 ELSE pack.lock]

\* The task up to its lock(): the filters and, for a landscape image with
\* --autosplit, the split.
task_prepare(t) ==
    /\ pack.tasks[t].pc = "spawned"
    /\ pack' = [pack EXCEPT !.tasks[t].pc = "lock",
                            !.tasks[t].half = IF /\ pack.contents[t] = "landscape"
                                                 /\ pack.autosplit
                                              THEN 1 ELSE 0]
    /\ UNCHANGED writerVars

\* A faulty variant of task_lock: the writer is taken without waiting.
task_lock_unguarded(t) ==
    /\ pack.tasks[t].pc = "lock"
    /\ pack' = [pack EXCEPT !.tasks[t].pc = "encode", !.lock = t]
    /\ UNCHANGED writerVars

\* out_cbz_writer.lock().unwrap(): granted when nobody holds the mutex.
task_lock(t) ==
    /\ pack.tasks[t].pc = "lock"
    /\ pack.lock = 0
    /\ pack' = [pack EXCEPT !.tasks[t].pc = "encode", !.lock = t]
    /\ UNCHANGED writerVars

\* Image::insert_into_cbz_writer up to insert_custom_str: write_to encodes the
\* image (it can fail), the builder gets an extension and bytes, so
\* build_custom_str succeeds.
task_encode(t, outcome) ==
    /\ pack.tasks[t].pc = "encode"
    /\ pack' = IF outcome = "ok" THEN [pack EXCEPT !.tasks[t].pc = "check"]
               ELSE TaskReturns(t, "err")
    /\ UNCHANGED writerVars

\* insert_custom_str, first step: the capacity check.
task_check(t) ==
    /\ pack.tasks[t].pc = "check"
    /\ op' = "insert_custom_str"
    /\ IF size >= MAX_FILE_NUMBER
       THEN /\ result' = "CbzTooLarge"
            /\ pack' = TaskReturns(t, "err")
       ELSE /\ pack' = [pack EXCEPT !.tasks[t].pc = "start_file"]
            /\ UNCHANGED result
    /\ UNCHANGED <<size, archive, bulk, closed, calls>>

\* insert_custom_str, second step: start_file opens a new entry in the zip.
task_start_file(t, io) ==
    /\ pack.tasks[t].pc = "start_file"
    /\ LET custom == task_name(pack.tasks[t].index, pack.tasks[t].half)
       IN  IF closed \/ io = "start_file_err"
           THEN /\ result' = "Zip"
                /\ pack' = TaskReturns(t, "err")
                /\ UNCHANGED archive
           ELSE /\ archive' = Append(archive,
                       Entry(FormatName(custom, png), <<>>,
                             [via |-> "insert_custom_str", index |-> NoIndex,
                              custom |-> custom, extension |-> png]))
                /\ pack' = [pack EXCEPT !.tasks[t].pc = "write_all"]
                /\ UNCHANGED result
    /\ UNCHANGED <<size, bulk, closed, op, calls>>

\* insert_custom_str, third step: write_all writes into the entry the zip has
\* open, the last one started; on failure a strict prefix is in it.
task_write_all(t, io) ==
    /\ pack.tasks[t].pc = "write_all"
    /\ archive # <<>>
    /\ LET bytes == Encoded(pack.tasks[t].index, pack.tasks[t].half)
           last == Len(archive)
       IN  IF io = "write_all_err"
           THEN /\ \E k \in 0..(Len(bytes) - 1) :
                      archive' = [archive EXCEPT
                                    ![last].bytes = @ \o SubSeq(bytes, 1, k)]
                /\ result' = "IO"
                /\ pack' = TaskReturns(t, "err")
           ELSE /\ archive' = [archive EXCEPT ![last].bytes = @ \o bytes]
                /\ pack' = [pack EXCEPT !.tasks[t].pc = "increment"]
                /\ UNCHANGED result
    /\ UNCHANGED <<size, bulk, closed, op, calls>>

\* insert_custom_str, last step: self.size += 1 and Ok(()); then the task
\* goes on with the second half under the same guard, or returns Ok.
task_increment(t) ==
    /\ pack.tasks[t].pc = "increment"
    /\ size' = size + 1
    /\ result' = "Ok"
    /\ pack' = IF pack.tasks[t].half = 1
               THEN [pack EXCEPT !.tasks[t].pc = "encode", !.tasks[t].half = 2,
                                 !.tasks[t].oks = @ + 1]
               ELSE [TaskReturns(t, "ok") EXCEPT !.tasks[t].oks = @ + 1]
    /\ UNCHANGED <<archive, bulk, closed, op, calls>>

\* The tasks of main that have returned.
Returned(t) == pack.tasks[t].pc \in {"none", "ok", "err"}

\* main after the spawn: try_join_all waits for every task, the first Err of
\* a task is returned, otherwise the writer is taken out of the Arc and the
\* Mutex and finished.
join_and_finish(io) ==
    /\ pack.pc = "join" /\ pack.mode = "main"
    /\ \A t \in DOMAIN pack.tasks : Returned(t)
    /\ IF \E t \in DOMAIN pack.tasks : pack.tasks[t].pc = "err"
       THEN /\ pack' = [pack EXCEPT !.pc = "failed"]
            /\ UNCHANGED writerVars
       ELSE /\ finish(io)
            /\ pack' = [pack EXCEPT !.pc = IF result' = "Ok" THEN "finished" ELSE "failed"]

(***************************************************************************)
(* The chapter download: download_images (src/dexter-core/src/lib.rs) and   *)
(* ArchiveDownload::request (src/dexter-core/src/api/archive_download.rs). *)
(* One task per link fetches the image; the buffered stream hands the      *)
(* results on in link order to a closure that inserts them into the writer *)
(* behind a tokio Mutex and reports to the progress channel.               *)
(***************************************************************************)
\* A send on the progress channel: it fails once the receiver is gone.
Sent(kind, link) == [download EXCEPT !.events = Append(@, Event(kind, link))]

\* The function returns Err: the MutexGuard of the closure is dropped.
Fails(error) == [download EXCEPT !.pc = "failed", !.error = error, !.lock = FALSE]

\* The bytes fetched from a link: they tell the link's position.
Fetched(link) == <<link>>

\* The function up to the stream: a new writer, the links of the chapter
\* (get_image_links can fail), and Init(len) sent to the channel.
download_init(api, links, rx, outcome) ==
    /\ download.pc = "idle"
    /\ size = 0 /\ archive = <<>> /\ bulk = 0 /\ ~closed
    /\ LET started == [NoDownload EXCEPT !.pc = "stream", !.api = api, !.rx = rx,
                                         !.links = links,
                                         !.tasks = [l \in DOMAIN links |-> "unspawned"]]
       IN  download' =
               IF outcome # "ok"
               THEN [started EXCEPT !.pc = "failed", !.error = "get_image_links",
                                    !.links = <<>>, !.tasks = <<>>]
               ELSE IF rx # "open"
               THEN [started EXCEPT !.pc = "failed", !.error = "send Init"]
               ELSE [started EXCEPT !.events = <<Event("Init", Len(links))>>]
    /\ UNCHANGED writerVars

\* .buffered(len.min(MAX_PARALLEL_DOWNLOAD)): the stream calls the map closure,
\* which spawns the task of the next link, while fewer tasks than that are
\* waiting to be handed on.
LinkWindow ==
    IF Len(download.links) < MAX_PARALLEL_DOWNLOAD
    THEN Len(download.links) ELSE MAX_PARALLEL_DOWNLOAD

spawn_download ==
    /\ download.pc = "stream"
    /\ download.spawned < Len(download.links)
    /\ download.spawned - Cardinality(download.handed) < LinkWindow
    /\ download' = [download EXCEPT !.spawned = @ + 1, !.tasks[download.spawned + 1] = "running"]
    /\ UNCHANGED writerVars

\* The spawned task of a link: the fetch (after its retries), then Download
\* sent to the channel; either can fail. The task runs on whatever the
\* function that spawned it does.
download_task(link, outcome) ==
    /\ download.tasks[link] = "running"
    /\ download' =
           IF outcome = "ok" /\ download.rx = "open"
           THEN [Sent("Download", link) EXCEPT !.tasks[link] = "Ok"]
           ELSE [download EXCEPT !.tasks[link] = "Err"]
    /\ UNCHANGED writerVars

\* A faulty variant of NextResult: the result of any finished task
\* (buffer_unordered).
AnyResult(handed) ==
    CHOOSE l \in DOMAIN download.tasks :
        /\ l \notin handed
        /\ (\E m \in DOMAIN download.tasks :
                m \notin handed /\ download.tasks[m] \in {"Ok", "Err"})
           => download.tasks[l] \in {"Ok", "Err"}

\* buffered: the results come out in the order of the links (FuturesOrdered),
\* the next one being that of the first link not yet handed on.
NextResult(handed) ==
    CHOOSE l \in DOMAIN download.tasks :
        l \notin handed /\ \A m \in 1..(l - 1) : m \in handed

\* try_for_each's closure up to its insert: the stream hands on the next
\* result; a task that failed is logged and skipped, otherwise the closure
\* takes the mutex (nobody else asks for it).
take_result ==
    /\ download.pc = "stream" /\ download.consumer = "next"
    /\ download.handed # DOMAIN download.tasks
    /\ LET link == NextResult(download.handed)
       IN  /\ download.tasks[link] \in {"Ok", "Err"}
           /\ download' =
                  IF download.tasks[link] = "Err"
                  THEN [download EXCEPT !.handed = @ \cup {link}]
                  ELSE [download EXCEPT !.handed = @ \cup {link}, !.current = link,
                                        !.consumer = "locked", !.lock = TRUE]
    /\ UNCHANGED writerVars

\* The insertion the closure builds. download_images:
\* from_filename(&filename).set_bytes(bytes).build(); request: the extension
\* of the file name or "" (unwrap_or_default), never an error.
LinkInsertion(api, filename, bytes) ==
    IF api = "download_images"
    THEN inner_build([live |-> TRUE, type_describer |-> Filename(filename),
                      bytes |-> Some(bytes), given |-> Some(bytes)],
                     "Auto", NoIndex, <<>>)
    ELSE [NoInsertion EXCEPT
            !.status = "Ok", !.bytes = bytes, !.type_ = "Auto",
            !.extension = IF path_extension(filename) = None THEN <<>>
                          ELSE path_extension(filename)[1]]

\* The closure's insert: the insertion is built and inserted with the auto
\* number; an error of either leaves the function (`?`). request drops its
\* guard right after the insert, download_images keeps it to the closure's end.
pack_page(io) ==
    /\ download.pc = "stream" /\ download.consumer = "locked"
    /\ LET insertion == LinkInsertion(download.api,
                                      download.links[download.current],
                                      Fetched(download.current))
       IN  IF insertion.status # "Ok"
           THEN /\ download' = Fails("build")
                /\ UNCHANGED writerVars
           ELSE /\ insert(insertion, io)
                /\ download' =
                       IF result' # "Ok" THEN Fails("insert")
                       ELSE [download EXCEPT
                               !.consumer = "inserted",
                               !.lock = (download.api = "download_images")]

\* A faulty variant of send_zip: Zip is reported for the link after the
\* current one.
send_zip_early ==
    /\ download.pc = "stream" /\ download.consumer = "inserted"
    /\ download' =
           IF download.rx = "open"
           THEN [Sent("Zip", (download.current % Len(download.links)) + 1) EXCEPT
                   !.consumer = "next", !.current = 0, !.lock = FALSE]
           ELSE Fails("send Zip")
    /\ UNCHANGED writerVars

\* The closure's end: Zip sent to the channel (an error leaves the function),
\* then the guard of download_images goes out of scope.
send_zip ==
    /\ download.pc = "stream" /\ download.consumer = "inserted"
    /\ download' =
           IF download.rx = "open"
           THEN [Sent("Zip", download.current) EXCEPT
                   !.consumer = "next", !.current = 0, !.lock = FALSE]
           ELSE Fails("send Zip")
    /\ UNCHANGED writerVars

\* After the stream: download_images finishes the writer (request returns it
\* as it is), Done is sent and the archive is returned.
download_finish(io) ==
    /\ download.pc = "stream" /\ download.consumer = "next"
    /\ download.handed = DOMAIN download.tasks
    /\ IF download.api = "download_images"
       THEN finish(io)
       ELSE UNCHANGED writerVars
    /\ download' =
           IF download.api = "download_images" /\ result' # "Ok" THEN Fails("finish")
           ELSE IF download.rx # "open" THEN Fails("send Done")
           ELSE [Sent("Done", 0) EXCEPT !.pc = "done"]

\* The owner of the channel drops its receiver.
drop_receiver ==
    /\ download.pc # "idle"
    /\ download.rx = "open"
    /\ download' = [download EXCEPT !.rx = "dropped"]
    /\ UNCHANGED writerVars

(***************************************************************************)
(* cbz-reader (src/cbz-reader/src/lib.rs): the Iced application showing one *)
(* page of an archive at a time.                                           *)
(***************************************************************************)
\* a - b on usize: in a release build it wraps around, in a debug build it
\* panics.
UsizeSub(a, b) ==
    IF a >= b THEN [value |-> a - b, underflow |-> FALSE]
    ELSE [value |-> USIZE_MAX - (b - a) + 1, underflow |-> TRUE]

\* Application::new: the number of entries is read once and the first page
\* is asked for.
new(cbz_len) ==
    /\ view.pc = "idle"
    /\ view' = [NoView EXCEPT !.pc = "running", !.cbz_len = cbz_len, !.commands = <<0>>]

\* Command::perform(Self::read_from_cbz(.., index), Self::handle_cbz_bytes)
Perform(v, index) == [v EXCEPT !.commands = Append(@, index)]

\* read_from_cbz and handle_cbz_bytes: the message a command ends with. The
\* read of an index that is not in the archive fails, and any read can fail.
handle_cbz_bytes(cbz_len, index, io) ==
    IF index < cbz_len /\ io = "ok" THEN "SetImage" ELSE "SetImageError"

\* The slider of the Ready view: 0..=max_value
SliderRange(cbz_len) == 0..(IF cbz_len > 0 THEN cbz_len - 1 ELSE 0)

\* A faulty variant of update: Right goes on past the last page.
update_unbounded(v, message) ==
    LET w == [v EXCEPT !.last = message.kind]
    IN  CASE message.kind = "Right" /\ v.state = "Ready" ->
                 {Perform([w EXCEPT !.index = @ + 1], v.index + 1)}
          [] message.kind = "Left" /\ v.state = "Ready" ->
                 LET index == IF v.index > 0 THEN v.index - 1 ELSE v.index
                 IN  {Perform([w EXCEPT !.index = index], index)}
          [] message.kind = "SetIndex" /\ v.state = "Ready" ->
                 LET index == IF v.index < v.cbz_len THEN message.new_index ELSE v.index
                 IN  {Perform([w EXCEPT !.index = index], index)}
          [] message.kind = "SetImage" /\ v.state = "Init" ->
                 {[w EXCEPT !.state = "Ready", !.index = 0]}
          [] OTHER -> {w}

\* Application::update on the view v: the views it can leave (two where the
\* outcome depends on the build).
update(v, message) ==
    LET w == [v EXCEPT !.last = message.kind]
        last_page == UsizeSub(v.cbz_len, 1)
    IN  CASE message.kind = "Right" /\ v.state = "Ready" ->
                 LET index == IF v.index < last_page.value THEN v.index + 1 ELSE v.index
                 IN  IF last_page.underflow
                     THEN {[w EXCEPT !.underflow = TRUE, !.panicked = TRUE],
                           Perform([w EXCEPT !.underflow = TRUE, !.index = index], index)}
                     ELSE {Perform([w EXCEPT !.index = index], index)}
          [] message.kind = "Left" /\ v.state = "Ready" ->
                 LET index == IF v.index > 0 THEN v.index - 1 ELSE v.index
                 IN  {Perform([w EXCEPT !.index = index], index)}
          [] message.kind = "SetIndex" /\ v.state = "Ready" ->
                 LET index == IF v.index < v.cbz_len THEN message.new_index ELSE v.index
                 IN  {Perform([w EXCEPT !.index = index], index)}
          [] message.kind = "SetImage" /\ v.state = "Init" ->
                 {[w EXCEPT !.state = "Ready", !.index = 0]}
          [] OTHER -> {w}

\* The runtime hands a message to update: a key press or a move of the
\* slider, or the end of a command, which leaves the commands in flight.
Running == view.pc = "running" /\ ~view.panicked

WithoutCommand(c) ==
    [view EXCEPT !.commands = SubSeq(@, 1, c - 1) \o SubSeq(@, c + 1, Len(@))]

(***************************************************************************)
(* sinister (src/sinister/src): the search of App and the downloads of      *)
(* MangaView.                                                              *)
(***************************************************************************)
\* App's onsubmit: ignored while a search is loading; otherwise the search
\* text is set, and the future that depends on it is started again (the one
\* running, if any, is dropped).
onsubmit(title) ==
    /\ ~app.manga_search_loading
    /\ app' = [app EXCEPT !.mangas_search = title, !.search = "started"]

\* The search future up to its first await: nothing to do for an empty text,
\* otherwise the mangas are cleared and the loading flag is set.
search_begin ==
    /\ app.search = "started"
    /\ app' = IF app.mangas_search = <<>>
              THEN [app EXCEPT !.search = "finished"]
              ELSE [app EXCEPT !.mangas = "None", !.manga_search_loading = TRUE,
                               !.search = "requesting"]

\* The search future from the answer of Search::request to its end: an error
\* is logged and the future returns; otherwise the mangas are set and the
\* loading flag is cleared.
search_end(outcome) ==
    /\ app.search = "requesting"
    /\ app' = IF outcome = "ok"
              THEN [app EXCEPT !.mangas = "Some", !.manga_search_loading = FALSE,
                               !.search = "finished"]
              ELSE [app EXCEPT !.search = "finished"]

\* MangaView's download closure, called for a chapter of `len` pages: it
\* returns if the progress map has the chapter's id as a key; otherwise the
\* file name gets the progress 0 and the receiver and the download task are
\* spawned.
download_chapter(chapter, len) ==
    IF app.download_progress[IdOf(chapter)] # Absent
    THEN app' = app
    ELSE app' = [app EXCEPT
                   !.download_progress[FileNameOf(chapter)] = 0,
                   !.downloads = Append(@, [chapter |-> chapter, len |-> len,
                                            stage |-> "spawned", progress |-> 0])]

\* The event ArchiveDownload::request sends next for download d, from what
\* its receiver has handled: Init, then Download and Zip for every page, then
\* Done.
NextEvent(d) ==
    IF d.stage = "spawned" THEN "Init"
    ELSE IF d.progress < 2 * d.len
    THEN (IF d.progress % 2 = 0 THEN "Download" ELSE "Zip")
    ELSE "Done"

\* progress / (size * 2.0) * 100.0
Percent(progress, len) == (progress * 100) \div (len * 2)

\* One round of the receiver's loop for the download at position n: the
\* request sends its next event and the receiver handles it; or the request
\* fails, the task panics on unwrap and the loop ends with the channel.
receive(n, outcome) ==
    /\ app.downloads[n].stage \in {"spawned", "running"}
    /\ LET d == app.downloads[n]
           file_name == FileNameOf(d.chapter)
       IN  app' =
               IF outcome # "ok" THEN [app EXCEPT !.downloads[n].stage = "failed"]
               ELSE CASE NextEvent(d) = "Init" ->
                             [app EXCEPT !.downloads[n].stage = "running"]
                      [] NextEvent(d) = "Done" ->
                             [app EXCEPT !.downloads[n].stage = "done",
                                         !.download_progress[file_name] = Absent]
                      [] OTHER ->
                             [app EXCEPT
                                !.downloads[n].progress = @ + 1,
                                !.download_progress[file_name] =
                                    Percent(d.progress + 1, d.len)]

(***************************************************************************)
(* Specifications.                                                         *)
(***************************************************************************)
Insert ==
    /\ Len(archive) < MaxFiles /\ \E ins \in Insertions : insert(ins, "ok")
    /\ UNCHANGED toolVars

InsertAt ==
    /\ Len(archive) < MaxFiles /\ \E ins \in Insertions, i \in Indices : insert_at(ins, i, "ok")
    /\ UNCHANGED toolVars

InsertCustomStr ==
    /\ Len(archive) < MaxFiles
       /\ \E ins \in Insertions, s \in CustomStrs : insert_custom_str(ins, s, "ok")
    /\ UNCHANGED toolVars

Finish ==
    /\ finish("ok")
    /\ UNCHANGED toolVars

\* The writer of the tools (CbzWriter::default(), an in-memory sink that does
\* not fail).
Next == Insert \/ InsertAt \/ InsertCustomStr \/ Finish

Spec == Init /\ [][Next]_vars

ReadInsert ==
    /\ Len(archive) < MaxFiles /\ \E ins \in ReadInsertions : insert(ins, "ok")
    /\ UNCHANGED toolVars

ReadInsertAt ==
    /\ Len(archive) < MaxFiles
       /\ \E ins \in ReadInsertions, i \in ReadIndices : insert_at(ins, i, "ok")
    /\ UNCHANGED toolVars

ReadInsertCustomStr ==
    /\ Len(archive) < MaxFiles
       /\ \E ins \in ReadInsertions, s \in ReadCustomStrs : insert_custom_str(ins, s, "ok")
    /\ UNCHANGED toolVars

ForEach ==
    /\ for_each
    /\ UNCHANGED toolVars

TryForEach ==
    /\ \E cb \in [1..Cardinality(file_names) -> CallbackResults] : try_for_each(cb)
    /\ UNCHANGED toolVars

NextRead ==
    ReadInsert \/ ReadInsertAt \/ ReadInsertCustomStr \/ Finish \/ ForEach \/ TryForEach

\* An archive written in any order by the in-memory writer, finished, and
\* iterated by a CbzReader opened on it.
SpecRead == Init /\ [][NextRead]_vars

InsertRun ==
    /\ \E n \in (MAX_FILE_NUMBER - Headroom)..MAX_FILE_NUMBER : insert_run(n)
    /\ UNCHANGED toolVars

SinkInsert ==
    /\ Len(archive) < MaxFiles /\ \E ins \in SinkInsertions, io \in IoOutcomes : insert(ins, io)
    /\ UNCHANGED toolVars

SinkInsertAt ==
    /\ Len(archive) < MaxFiles
       /\ \E ins \in SinkInsertions, i \in SinkIndices, io \in IoOutcomes : insert_at(ins, i, io)
    /\ UNCHANGED toolVars

SinkInsertCustomStr ==
    /\ Len(archive) < MaxFiles
       /\ \E ins \in SinkInsertions, s \in SinkCustomStrs, io \in IoOutcomes :
              insert_custom_str(ins, s, io)
    /\ UNCHANGED toolVars

SinkInsertRaw ==
    /\ Len(archive) < MaxFiles
       /\ \E ins \in SinkInsertions, f \in SinkRawNames, io \in IoOutcomes :
              insert_raw(f, ins, io)
    /\ UNCHANGED toolVars

SinkFinish ==
    /\ \E io \in {"ok", "finish_err"} : finish(io)
    /\ UNCHANGED toolVars

\* A writer over any sink (CbzWriter::new / From<ZipWriter<W>>), whose writes
\* may fail, filled up to its capacity.
NextSink ==
    InsertRun \/ SinkInsert \/ SinkInsertAt \/ SinkInsertCustomStr \/ SinkInsertRaw
    \/ SinkFinish

SpecSink == Init /\ [][NextSink]_vars

IndexedInsertAt ==
    /\ /\ archive = <<>>
       /\ \E i \in 0..(Pow10(COUNTER_SIZE) - 1 + Beyond) :
              insert_at([extension |-> png, bytes |-> <<1>>], i, "ok")
    /\ UNCHANGED toolVars

NextIndex == IndexedInsertAt \/ Finish

\* One insert_at into a new writer, for every index up to and past 10^COUNTER_SIZE.
SpecIndex == Init /\ [][NextIndex]_vars

BuilderFromFilename ==
    /\ ~builder.live
    /\ \E filename \in Filenames : from_filename(filename)
    /\ built' = NoInsertion
    /\ UNCHANGED <<writerVars, reindexVars, appVars>>

BuilderFromExtension ==
    /\ ~builder.live
    /\ \E extension \in Extensions : from_extension(extension)
    /\ built' = NoInsertion
    /\ UNCHANGED <<writerVars, reindexVars, appVars>>

SetBytes ==
    /\ Len(builder.given) < MaxSetBytes
    /\ \E bytes \in BuilderBytes : set_bytes(bytes)
    /\ UNCHANGED <<writerVars, built, reindexVars, appVars>>

SetBytesFromReaderErr ==
    /\ set_bytes_from_reader_err
    /\ UNCHANGED <<writerVars, built, reindexVars, appVars>>

Build ==
    /\ build
    /\ UNCHANGED <<writerVars, reindexVars, appVars>>

BuildIndexed ==
    /\ \E index \in SinkIndices : build_indexed(index)
    /\ UNCHANGED <<writerVars, reindexVars, appVars>>

BuildCustomStr ==
    /\ \E s \in SinkCustomStrs : build_custom_str(s)
    /\ UNCHANGED <<writerVars, reindexVars, appVars>>

NextBuild ==
    BuilderFromFilename \/ BuilderFromExtension \/ SetBytes \/ SetBytesFromReaderErr
    \/ Build \/ BuildIndexed \/ BuildCustomStr

\* Builders made from every file name and extension, given bytes any number
\* of times, and built; a result is dropped when the next builder is made.
SpecBuild == Init /\ [][NextBuild]_vars

PipeFromFilename ==
    /\ ~closed /\ ~builder.live
    /\ \E filename \in PipeFilenames : from_filename(filename)
    /\ built' = NoInsertion
    /\ UNCHANGED <<writerVars, reindexVars, appVars>>

PipeFromExtension ==
    /\ ~closed /\ ~builder.live
    /\ \E extension \in PipeExtensions : from_extension(extension)
    /\ built' = NoInsertion
    /\ UNCHANGED <<writerVars, reindexVars, appVars>>

\* writer.insert(insertion) with the insertion that build() returned; the
\* insertion is moved into the call.
PipeInsert ==
    /\ Len(archive) < MaxBuilt
    /\ built.status = "Ok" /\ built.type_ = "Auto"
    /\ insert([extension |-> built.extension, bytes |-> built.bytes], "ok")
    /\ built' = [built EXCEPT !.status = "moved"]
    /\ UNCHANGED <<builder, reindexVars, appVars>>

\* writer.insert_at(insertion) with the insertion that build_indexed() returned
PipeInsertAt ==
    /\ Len(archive) < MaxBuilt
    /\ built.status = "Ok" /\ built.type_ = "Indexed"
    /\ insert_at([extension |-> built.extension, bytes |-> built.bytes], built.index, "ok")
    /\ built' = [built EXCEPT !.status = "moved"]
    /\ UNCHANGED <<builder, reindexVars, appVars>>

\* writer.insert_custom_str(insertion) with the insertion that
\* build_custom_str() returned
PipeInsertCustomStr ==
    /\ Len(archive) < MaxBuilt
    /\ built.status = "Ok" /\ built.type_ = "CustomStr"
    /\ insert_custom_str([extension |-> built.extension, bytes |-> built.bytes],
                         built.custom, "ok")
    /\ built' = [built EXCEPT !.status = "moved"]
    /\ UNCHANGED <<builder, reindexVars, appVars>>

PipeFinish ==
    /\ ~builder.live /\ built.status \in {"none", "moved"}
    /\ finish("ok")
    /\ UNCHANGED toolVars

ReadByName ==
    /\ \E name \in file_names : read_file(name)
    /\ UNCHANGED toolVars

NextPipe ==
    PipeFromFilename \/ PipeFromExtension \/ SetBytes \/ SetBytesFromReaderErr
    \/ Build \/ BuildIndexed \/ BuildCustomStr
    \/ PipeInsert \/ PipeInsertAt \/ PipeInsertCustomStr \/ PipeFinish \/ ReadByName

\* Insertions made by builders, written by the in-memory writer through the
\* three insert operations, and read back by name from the finished archive.
SpecPipe == Init /\ [][NextPipe]_vars

\* cbz-pack: the loop of pack_imgs_to_cbz and the tasks of main, then the
\* finished archive read back in name-sorted order.
packFrame == <<builder, built, reindexVars, download, view, app>>

PackImgsToCbz ==
    /\ \E n \in 0..MaxPages : \E imgs \in [1..n -> Images] :
       \E autosplit \in BOOLEAN : \E base \in PackBases :
           pack_imgs_to_cbz(imgs, autosplit, base)
    /\ UNCHANGED packFrame

PackImgsInsert ==
    /\ \E io \in IoOutcomes \cup {"encode_err"} : pack_imgs_insert(io)
    /\ UNCHANGED packFrame

PackImgsFinish ==
    /\ \E io \in RunOutcomes : pack_imgs_finish(io)
    /\ UNCHANGED packFrame

SpawnTasks ==
    /\ \E n \in 1..MaxPages : \E contents \in [1..n -> Contents] :
       \E autosplit \in BOOLEAN : spawn_tasks(contents, autosplit)
    /\ UNCHANGED packFrame

TaskPrepare ==
    /\ \E t \in DOMAIN pack.tasks : task_prepare(t)
    /\ UNCHANGED packFrame

TaskLock ==
    /\ \E t \in DOMAIN pack.tasks : task_lock(t)
    /\ UNCHANGED packFrame

TaskEncode ==
    /\ \E t \in DOMAIN pack.tasks : \E outcome \in EncodeOutcomes : task_encode(t, outcome)
    /\ UNCHANGED packFrame

TaskCheck ==
    /\ \E t \in DOMAIN pack.tasks : task_check(t)
    /\ UNCHANGED packFrame

TaskStartFile ==
    /\ \E t \in DOMAIN pack.tasks : \E io \in IoOutcomes : task_start_file(t, io)
    /\ UNCHANGED packFrame

TaskWriteAll ==
    /\ \E t \in DOMAIN pack.tasks : \E io \in IoOutcomes : task_write_all(t, io)
    /\ UNCHANGED packFrame

TaskIncrement ==
    /\ \E t \in DOMAIN pack.tasks : task_increment(t)
    /\ UNCHANGED packFrame

JoinAndFinish ==
    /\ \E io \in RunOutcomes : join_and_finish(io)
    /\ UNCHANGED packFrame

NextPack ==
    \/ PackImgsToCbz
    \/ PackImgsInsert
    \/ PackImgsFinish
    \/ SpawnTasks
    \/ TaskPrepare
    \/ TaskLock
    \/ TaskEncode
    \/ TaskCheck
    \/ TaskStartFile
    \/ TaskWriteAll
    \/ TaskIncrement
    \/ JoinAndFinish
    \/ ForEach

SpecPack == Init /\ [][NextPack]_vars


\* The chapter download.
downloadFrame == <<builder, built, reindexVars, pack, view, app>>

DownloadInit ==
    /\ \E api \in Apis : \E n \in 0..MaxLinks : \E links \in [1..n -> LinkFilenames] :
       \E rx \in Receivers : \E outcome \in RunOutcomes :
           download_init(api, links, rx, outcome)
    /\ UNCHANGED downloadFrame

SpawnDownload == spawn_download /\ UNCHANGED downloadFrame

DownloadTask ==
    /\ \E link \in DOMAIN download.tasks : \E outcome \in RunOutcomes :
           download_task(link, outcome)
    /\ UNCHANGED downloadFrame

TakeResult == take_result /\ UNCHANGED downloadFrame

PackPage ==
    /\ \E io \in IoOutcomes : pack_page(io)
    /\ UNCHANGED downloadFrame

SendZip == send_zip /\ UNCHANGED downloadFrame

DownloadFinish ==
    /\ \E io \in RunOutcomes : download_finish(io)
    /\ UNCHANGED downloadFrame

DropReceiver == drop_receiver /\ UNCHANGED downloadFrame

NextDownload ==
    \/ DownloadInit
    \/ SpawnDownload
    \/ DownloadTask
    \/ TakeResult
    \/ PackPage
    \/ SendZip
    \/ DownloadFinish
    \/ DropReceiver

SpecDownload == Init /\ [][NextDownload]_vars

\* The reader view: a key is pressed, the slider is moved, a command ends.
viewFrame == <<writerVars, builder, built, reindexVars, pack, download, app>>

New ==
    /\ \E cbz_len \in 0..MaxFiles : new(cbz_len)
    /\ UNCHANGED viewFrame

KeyPressed ==
    /\ Running
    /\ Len(view.commands) < MaxCommands
    /\ \E key \in Keys : view' \in update(view, [kind |-> key, new_index |-> 0])
    /\ UNCHANGED viewFrame

SliderMoved ==
    /\ Running
    /\ Len(view.commands) < MaxCommands
    /\ view.state = "Ready"
    /\ \E new_index \in SliderRange(view.cbz_len) :
           view' \in update(view, [kind |-> "SetIndex", new_index |-> new_index])
    /\ UNCHANGED viewFrame

CommandDone ==
    /\ Running
    /\ \E c \in DOMAIN view.commands : \E io \in RunOutcomes :
           view' \in update(WithoutCommand(c),
                            [kind |-> handle_cbz_bytes(view.cbz_len, view.commands[c], io),
                             new_index |-> 0])
    /\ UNCHANGED viewFrame

NextView ==
    \/ New
    \/ KeyPressed
    \/ SliderMoved
    \/ CommandDone

SpecView == Init /\ [][NextView]_vars

\* sinister: searches are submitted and answered, downloads are asked for
\* and make progress.
appFrame == <<writerVars, builder, built, reindexVars, pack, download, view>>

OnSubmit ==
    /\ \E title \in Titles : onsubmit(title)
    /\ UNCHANGED appFrame

SearchBegin == search_begin /\ UNCHANGED appFrame

SearchEnd ==
    /\ \E outcome \in RunOutcomes : search_end(outcome)
    /\ UNCHANGED appFrame

DownloadChapter ==
    /\ Len(app.downloads) < MaxDownloads
    /\ \E chapter \in Chapters : \E len \in 0..1 : download_chapter(chapter, len)
    /\ UNCHANGED appFrame

Receive ==
    /\ \E n \in DOMAIN app.downloads : \E outcome \in RunOutcomes : receive(n, outcome)
    /\ UNCHANGED appFrame

NextApp ==
    \/ OnSubmit
    \/ SearchBegin
    \/ SearchEnd
    \/ DownloadChapter
    \/ Receive

SpecApp == Init /\ [][NextApp]_vars

(***************************************************************************)
(* Properties.                                                             *)
(***************************************************************************)
InsertOps ==
    {"insert", "insert_at", "insert_custom_str", "insert_from_bytes_slice_with_options"}

AllDigits(s) == \A k \in DOMAIN s : IsDigit(s[k])

\* The number a string of decimal digits denotes.
RECURSIVE DecodeIndex(_)
DecodeIndex(s) ==
    IF s = <<>> THEN 0
    ELSE 10 * DecodeIndex(SubSeq(s, 1, Len(s) - 1)) + DigitValue(s[Len(s)])

\* name is a stem of exactly COUNTER_SIZE decimal digits that denote n, then
\* '.', then the extension.
IsIndexedName(name, n, extension) ==
    /\ Len(name) = COUNTER_SIZE + 1 + Len(extension)
    /\ AllDigits(SubSeq(name, 1, COUNTER_SIZE))
    /\ DecodeIndex(SubSeq(name, 1, COUNTER_SIZE)) = n
    /\ name[COUNTER_SIZE + 1] = "."
    /\ SubSeq(name, COUNTER_SIZE + 2, Len(name)) = extension

\* C1: after any sequence of insert, insert_at, insert_custom_str and
\* insert_from_bytes_slice_with_options calls, successful or failing, the
\* writer's size() is at most MAX_FILE_NUMBER.
C1_SizeAtMostMax == size <= MAX_FILE_NUMBER

\* C1 witness: the writer reached MAX_FILE_NUMBER by a successful insert after
\* an insert that failed while writing.
C1_Witness ==
    /\ size = MAX_FILE_NUMBER
    /\ op \in InsertOps /\ result = "Ok"
    /\ ZipLen > size

\* C2: on a writer whose size is MAX_FILE_NUMBER every insert operation returns
\* CbzTooLarge, leaves size at MAX_FILE_NUMBER and writes nothing to the zip.
C2_FullWriterRejects ==
    [][(size = MAX_FILE_NUMBER /\ op' \in InsertOps)
          => /\ result' = "CbzTooLarge"
             /\ size' = MAX_FILE_NUMBER
             /\ archive' = archive /\ bulk' = bulk]_vars

\* C2 witness: insert_at was refused on a full writer.
C2_Witness ==
    /\ size = MAX_FILE_NUMBER
    /\ op = "insert_at" /\ result = "CbzTooLarge"

\* C3 (as claimed): the number of entries of the underlying zip archive never
\* exceeds MAX_FILE_NUMBER, also when an insert fails in write_all after
\* start_file added the entry.
C3_ZipLenAtMostMax == ZipLen <= MAX_FILE_NUMBER

\* C4 (as claimed): after any sequence of insert, insert_at and
\* insert_custom_str calls no two entries of the archive share a name.
C4_NoSharedName ==
    \A i, j \in DOMAIN archive : i # j => archive[i].name # archive[j].name

C6_AutoNames ==
    /\ size = Len(archive)
    /\ \A p \in DOMAIN archive :
           archive[p].via = "insert"
               => IsIndexedName(archive[p].name, p, archive[p].extension)
    /\ ( /\ Len(archive) = 3
         /\ \A p \in DOMAIN archive : archive[p].via = "insert"
         /\ [p \in 1..3 |-> archive[p].extension] = <<png, jpg, png>> )
       => [p \in 1..3 |-> archive[p].name]
              = << <<"0", "0", "0", "0", "1", ".", "p", "n", "g">>,
                   <<"0", "0", "0", "0", "2", ".", "j", "p", "g">>,
                   <<"0", "0", "0", "0", "3", ".", "p", "n", "g">> >>

\* C6 witness: the three auto insertions png, jpg, png were made.
C6_Witness ==
    /\ Len(archive) = 3
    /\ \A p \in DOMAIN archive : archive[p].via = "insert"
    /\ [p \in 1..3 |-> archive[p].extension] = <<png, jpg, png>>
    /\ size = 3 /\ result = "Ok"

\* C7 (as claimed): insert_custom_str names the entry custom_str, '.', the
\* extension, for every custom string whatever its length.
C7_CustomNameUnaltered ==
    \A p \in DOMAIN archive :
        archive[p].via = "insert_custom_str"
            => archive[p].name = archive[p].custom \o <<".">> \o archive[p].extension

\* C8: for every index i in [0, 10^COUNTER_SIZE), insert_at names the entry
\* with exactly COUNTER_SIZE decimal digits that decode to i, '.', the
\* extension.
C8_IndexRoundTrip ==
    \A p \in DOMAIN archive :
        (archive[p].via = "insert_at" /\ archive[p].index < Pow10(COUNTER_SIZE))
            => IsIndexedName(archive[p].name, archive[p].index, archive[p].extension)

\* C8 witness: insert_at wrote the entry of the largest index below 10^COUNTER_SIZE.
C8_Witness ==
    \E p \in DOMAIN archive :
        /\ archive[p].via = "insert_at"
        /\ archive[p].index = Pow10(COUNTER_SIZE) - 1
        /\ result = "Ok"

NumericallyNamed(p) == archive[p].via \in {"insert", "insert_at"}

\* C9 (as claimed): for any two entries named from a numeric index, by insert
\* or insert_at, with indices i < j, the name of i sorts strictly before the
\* name of j, whatever the extensions.
C9_NameOrderIsIndexOrder ==
    \A p, q \in DOMAIN archive :
        (NumericallyNamed(p) /\ NumericallyNamed(q) /\ archive[p].index < archive[q].index)
            => StrLess(archive[p].name, archive[q].name)

\* C9 (amended): the same for indices i < j < 10^COUNTER_SIZE.
C9_NameOrderIsIndexOrderBelowWidth ==
    \A p, q \in DOMAIN archive :
        ( /\ NumericallyNamed(p) /\ NumericallyNamed(q)
          /\ archive[p].index < archive[q].index
          /\ archive[q].index < Pow10(COUNTER_SIZE) )
            => StrLess(archive[p].name, archive[q].name)

\* C9 witness: two entries with different extensions and different numbers of
\* digits, the larger index written first.
C9_Witness ==
    \E p, q \in DOMAIN archive :
        /\ p < q
        /\ archive[p].via = "insert_at" /\ archive[q].via = "insert"
        /\ archive[q].index < archive[p].index
        /\ archive[p].index < Pow10(COUNTER_SIZE)
        /\ archive[p].extension # archive[q].extension

\* C10 (as claimed): for_each, and try_for_each with a callback that never
\* fails, call the callback exactly once for every entry of the archive, in
\* ascending name order, whatever the order the entries were written in.
C10_EveryEntryOnceAscending ==
    (op \in {"for_each", "try_for_each"} /\ result = "Ok")
        => /\ Len(calls) = Len(archive)
           /\ \A k \in 1..(Len(calls) - 1) : StrLess(calls[k].name, calls[k + 1].name)
           /\ \A i \in DOMAIN archive :
                  \E k \in DOMAIN calls :
                      /\ calls[k].name = archive[i].name
                      /\ calls[k].bytes = archive[i].bytes

\* C11: try_for_each stops at the first call of the callback that returns an
\* error and returns that error: the calls made are the sorted names up to
\* and including the failing one, none of them but the last returned an
\* error, and Ok is returned only when every name was called with Ok.
C11_TryForEachShortCircuits ==
    op = "try_for_each"
        => LET sorted == Sorted(file_names)
               n == Len(calls)
           IN  /\ n <= Len(sorted)
               /\ \A k \in 1..n : calls[k].name = sorted[k]
               /\ \A k \in 1..(n - 1) : calls[k].returned = "Ok"
               /\ IF n > 0 /\ calls[n].returned # "Ok"
                  THEN result = calls[n].returned
                  ELSE result = "Ok" /\ n = Len(sorted)

\* C11 witness: the callback failed with E2 at the second of three entries.
C11_Witness ==
    /\ op = "try_for_each" /\ result = "E2"
    /\ Len(calls) = 2 /\ Cardinality(file_names) = 3

\* The extension source of builder b is empty or yields no extension.
NoExtensionIn(b) ==
    IF b.type_describer.kind = "Extension" THEN b.type_describer.text = <<>>
    ELSE path_extension(b.type_describer.text) \in {None, Some(<<>>)}

\* C12 as stated: a build fails with CbzInsertionNoBytes when no set_bytes*
\* call was made, fails with CbzInsertionNoExtension when the extension source
\* is empty or yields no extension, and succeeds only when bytes were set and
\* the resolved extension is non-empty.
C12_BuildErrors ==
    built.status # "none"
        => /\ built.from.given = None => built.status = "CbzInsertionNoBytes"
           /\ NoExtensionIn(built.from) => built.status = "CbzInsertionNoExtension"
           /\ built.status = "Ok"
                  => /\ built.from.given # None
                     /\ ~NoExtensionIn(built.from)
                     /\ built.extension # <<>>

\* C12 amended: a build fails with CbzInsertionNoBytes when no set_bytes* call
\* was made, whatever the extension source; it fails with
\* CbzInsertionNoExtension when bytes were set and the extension source is
\* empty or yields no extension; it succeeds only when bytes were set and the
\* resolved extension is non-empty.
C12_BuildErrorsBytesFirst ==
    built.status # "none"
        => /\ built.from.given = None => built.status = "CbzInsertionNoBytes"
           /\ (built.from.given # None /\ NoExtensionIn(built.from))
                  => built.status = "CbzInsertionNoExtension"
           /\ built.status = "Ok"
                  => /\ built.from.given # None
                     /\ ~NoExtensionIn(built.from)
                     /\ built.extension # <<>>

\* C12 witness: a builder with neither bytes nor an extension was built, and
\* the build failed for its bytes.
C12_Witness ==
    /\ built.status = "CbzInsertionNoBytes"
    /\ built.from.given = None
    /\ NoExtensionIn(built.from)

HasDot(s) == \E i \in DOMAIN s : s[i] = "."

\* The position of the last '.' of s (s has one).
LastDot(s) == CHOOSE i \in DOMAIN s : s[i] = "." /\ \A j \in (i + 1)..Len(s) : s[j] # "."

\* The part of s after its last '.'.
AfterLastDot(s) == SubSeq(s, LastDot(s) + 1, Len(s))

\* A build of a builder made by from_filename and given bytes has returned.
BuiltFromFilename ==
    /\ built.status # "none"
    /\ built.from.type_describer.kind = "Filename"
    /\ built.from.given # None

\* C15 as stated: for every name given to from_filename, the extension is the
\* part of the name after its last '.', and the build fails with
\* CbzInsertionNoExtension exactly when the name has no '.' or nothing follows
\* the last '.'.
C15_ExtensionAfterLastDot ==
    BuiltFromFilename
        => LET name == built.from.type_describer.text
           IN  IF ~HasDot(name) \/ AfterLastDot(name) = <<>>
               THEN built.status = "CbzInsertionNoExtension"
               ELSE built.status = "Ok" /\ built.extension = AfterLastDot(name)

\* The rule of C15 amended, `file` being the file name of the name, if any.
ExtensionRule(file) ==
    IF \/ file = None
       \/ ~HasDot(file[1])
       \/ AfterLastDot(file[1]) = <<>>
       \/ LastDot(file[1]) = 1
    THEN built.status = "CbzInsertionNoExtension"
    ELSE built.status = "Ok" /\ built.extension = AfterLastDot(file[1])

\* C15 amended: for every name given to from_filename, the extension is the
\* part after the last '.' of the name's file name (its last path component, as
\* Path::file_name gives it), and the build fails with CbzInsertionNoExtension
\* exactly when the name has no file name, the file name has no '.', nothing
\* follows its last '.', or its last '.' is its first character.
C15_ExtensionOfFileName ==
    BuiltFromFilename => ExtensionRule(path_file_name(built.from.type_describer.text))

\* C15 witness: the file name ".a", whose only '.' is its first character, was
\* built with bytes and has no extension.
C15_Witness ==
    /\ BuiltFromFilename
    /\ built.from.type_describer.text = <<".", "a">>
    /\ built.status = "CbzInsertionNoExtension"

\* s ends with t.
EndsWith(s, t) == Len(t) <= Len(s) /\ SubSeq(s, Len(s) - Len(t) + 1, Len(s)) = t

\* C13: every entry written through insert, insert_at or insert_custom_str has
\* a name that ends with '.' followed by a non-empty extension, and carries
\* the bytes last given to the builder of its insertion.
C13_BuiltEntries ==
    [][(op' \in InsertOps /\ result' = "Ok" /\ Len(archive') = Len(archive) + 1)
           => LET entry == archive'[Len(archive')]
                  given == built.from.given
              IN  /\ built.extension # <<>>
                  /\ EndsWith(entry.name, <<".">> \o built.extension)
                  /\ given # <<>>
                  /\ entry.bytes = given[Len(given)]]_vars

\* C13 witness: a builder given two different byte strings was built and its
\* insertion written by insert_at.
C13_Witness ==
    /\ op = "insert_at" /\ result = "Ok"
    /\ built.status = "moved"
    /\ Len(built.from.given) = 2
    /\ built.from.given[1] # built.from.given[2]
    /\ archive[Len(archive)].bytes = built.from.given[2]

\* C14: after finish() and reopening with a CbzReader, reading an entry by the
\* name the writer gave it returns exactly the bytes of the insertion that was
\* inserted under that name.
C14_RoundTrip ==
    op = "read_by_name"
        => \A i \in DOMAIN archive :
               archive[i].name = calls[1].name => calls[1].bytes = archive[i].bytes

\* C16: repair is idempotent: when repairing a name succeeds with result r,
\* repairing r with the same width succeeds and returns r unchanged.
C16_RepairIdempotent ==
    repair.again => repair.out.ok /\ repair.out.value = repair.name

Repaired == repair.out.error # "not called"

\* C17: repair returns an error when the name is empty, when the numeric
\* candidate before the first '-' is longer than the expected width, or when
\* that candidate does not parse as an unsigned 16-bit integer; in every other
\* case it succeeds.
C17_RepairErrors ==
    Repaired
        => (~repair.out.ok
                <=> \/ repair.name = <<>>
                    \/ Len(Candidate(repair.name)) > repair.expected_length
                    \/ parse_u16(Candidate(repair.name)) = None)

\* C18: whenever repair succeeds, its result is the decimal index zero-padded
\* to exactly the expected width (digits only), then '-', then the suffix of
\* the input: everything after the first '-' of the input, empty without one.
C18_RepairedName ==
    (Repaired /\ repair.out.ok)
        => LET r == repair.out.value
               W == repair.expected_length
               index == parse_u16(Candidate(repair.name))
           IN  /\ Len(r) >= W + 1
               /\ \A i \in 1..W : IsDigit(r[i])
               /\ index # None
               /\ NumberOf(SubSeq(r, 1, W)) = index[1]
               /\ r[W + 1] = "-"
               /\ SubSeq(r, W + 2, Len(r)) = Suffix(repair.name)

\* C19: a repair run whose output directory is the directory of the source
\* archive is rejected with an error before any file is created or written: it
\* leaves every file as it was and does not end well.
C19_SameDirRejected ==
    (run.pc # "idle" /\ run.outdir = run.archive_dir)
        => disk = SourceOnDisk /\ run.pc # "done"

\* Every entry main visits has been repaired and copied whole to the new
\* archive.
AllEntriesCopied ==
    LET visited == Visited(run.tool, run.source)
    IN  /\ Len(run.fixed) = Len(visited)
        /\ \A k \in DOMAIN visited :
               /\ NewFilename(run.tool, visited[k].name).ok
               /\ run.fixed[k].name = NewFilename(run.tool, visited[k].name).value
               /\ run.fixed[k].bytes = visited[k].bytes

InsertRunning(t) == pack.tasks[t].pc \in {"start_file", "write_all", "increment"}

\* The inserts of main's tasks that returned Ok.
RECURSIVE OkInserts(_)
OkInserts(t) == IF t = 0 THEN 0 ELSE pack.tasks[t].oks + OkInserts(t - 1)

\* C21: in the concurrent packer no two tasks are inside an insert (between
\* its capacity check and its size increment) at the same time, a task
\* inside an insert holds the mutex, and once every task has returned size()
\* is the number of inserts that returned Ok.
C21_InsertsAtomic ==
    pack.mode = "main" =>
        /\ \A t, u \in DOMAIN pack.tasks :
               InsertRunning(t) /\ InsertRunning(u) => t = u
        /\ \A t \in DOMAIN pack.tasks :
               InsertRunning(t) => pack.lock = t
        /\ (\A t \in DOMAIN pack.tasks : Returned(t)) =>
               size = OkInserts(Len(pack.tasks))

\* Two tasks have inserted, the later image first, and main has finished the
\* writer.
C21_Witness ==
    /\ pack.mode = "main" /\ pack.pc = "finished"
    /\ size >= 2 /\ size = OkInserts(Len(pack.tasks))
    /\ archive[1].bytes[1] > archive[Len(archive)].bytes[1]

\* <<index, half>> of a is before that of b
PartBefore(a, b) == a[1] < b[1] \/ (a[1] = b[1] /\ a[2] < b[2])

PageName(j) == FormatName(PackName(j, 0), png)

\* C24: after pack_imgs_to_cbz, for every split page i, name-sorted
\* iteration hands over i-1 immediately before i-2, every entry of an earlier
\* page before them and every entry of a later page after them (the pages of
\* the leading run are earlier pages, compared by their names).
C24_HalvesAdjacent ==
    (pack.mode = "lib" /\ pack.pc = "finished" /\ op = "for_each") =>
        \A k \in DOMAIN calls :
            calls[k].bytes[2] = 1 =>
                /\ k < Len(calls)
                /\ calls[k + 1].bytes = <<calls[k].bytes[1], 2>>
                /\ \E extension \in {png, jpg} :
                       /\ calls[k].name =
                              FormatName(PackName(calls[k].bytes[1], 1), extension)
                       /\ calls[k + 1].name =
                              FormatName(PackName(calls[k].bytes[1], 2), extension)
                /\ \A l \in DOMAIN calls :
                       /\ calls[l].bytes[1] < calls[k].bytes[1] => l < k
                       /\ calls[l].bytes[1] > calls[k].bytes[1] => l > k + 1
                /\ \A j \in 0..(pack.base - 1) : StrLess(PageName(j), calls[k].name)

\* A split page between two other pages, after a leading run that ends where
\* the numbers get one more digit.
C24_Witness ==
    /\ pack.mode = "lib" /\ pack.pc = "finished" /\ op = "for_each"
    /\ pack.base = 9
    /\ \E k \in DOMAIN calls :
           /\ calls[k].bytes[2] = 1
           /\ k + 1 < Len(calls)
           /\ calls[k + 1].bytes[2] = 2

\* The positions of the events of a kind in the progress channel.
EventsOf(kind) == { k \in DOMAIN download.events : download.events[k].kind = kind }

\* C23: in the chapter download a page that fails (its fetch, the build of
\* its insertion or its insert) never fails the batch: the function does not
\* return the error of a build or of an insert, and when download_images
\* returns its archive the writer is finished, Done was sent last and the
\* archive holds the pages that succeeded.
C23_PageFailureSkipped ==
    /\ download.error \notin {"build", "insert"}
    /\ (download.pc = "done" /\ download.api = "download_images") =>
           /\ closed
           /\ download.events[Len(download.events)].kind = "Done"
           /\ \A k \in EventsOf("Zip") :
                  \E i \in DOMAIN archive :
                      archive[i].bytes = Fetched(download.events[k].link)

\* C25: the writer's lock is held only while one insert runs: in cbz-pack a
\* task holding the mutex is inside its first insert (not encoding, not at a
\* second insert), and in the chapter download the closure holding the mutex
\* is at its insert, not at the send that follows.
C25_LockOnlyForOneInsert ==
    /\ \A t \in DOMAIN pack.tasks :
           pack.lock = t =>
               /\ pack.tasks[t].pc \in {"check", "start_file", "write_all", "increment"}
               /\ pack.tasks[t].oks = 0
    /\ download.lock => download.consumer = "locked"

\* The download part of C25 alone.
C25_DownloadLock == download.lock => download.consumer = "locked"

\* C26: in the chapter download, of two links whose pages went into the
\* archive whole, the earlier link's entry was written first and its name
\* sorts before the later link's.
C26_LinkOrder ==
    download.pc # "idle" =>
        \A i, j \in DOMAIN archive :
            ( /\ archive[i].bytes # <<>>
              /\ archive[j].bytes # <<>>
              /\ archive[i].bytes[1] < archive[j].bytes[1] ) =>
                /\ i < j
                /\ StrLess(archive[i].name, archive[j].name)

\* Two links are packed although the download of the later one completed
\* first.
C26_Witness ==
    /\ download.pc = "done"
    /\ Len(archive) = 2 /\ size = 2
    /\ \E k, l \in DOMAIN download.events :
           /\ k < l
           /\ download.events[k] = Event("Download", 2)
           /\ download.events[l] = Event("Download", 1)

\* C27: the progress events of a chapter download: Init(len) is the first
\* event and the only Init, and it has been sent once the stream runs; Zip of
\* a link comes after Download of that link; the Zip events are at most as
\* many as the Download events, which are at most len; Done is sent at most
\* once, after the closure has dealt with every link, and no Zip follows it.
C27_EventProtocol ==
    LET events == download.events
    IN  /\ \A k \in DOMAIN events : (events[k].kind = "Init") <=> (k = 1)
        /\ download.pc \in {"stream", "done"} =>
               events # <<>> /\ events[1] = Event("Init", Len(download.links))
        /\ \A k \in EventsOf("Zip") :
               \E j \in EventsOf("Download") :
                   j < k /\ events[j].link = events[k].link
        /\ \A k, l \in EventsOf("Zip") : events[k].link = events[l].link => k = l
        /\ \A k, l \in EventsOf("Download") : events[k].link = events[l].link => k = l
        /\ Cardinality(EventsOf("Zip")) <= Cardinality(EventsOf("Download"))
        /\ Cardinality(EventsOf("Download")) <= Len(download.links)
        /\ Cardinality(EventsOf("Done")) <= 1
        /\ \A k \in EventsOf("Done") :
               /\ download.handed = DOMAIN download.tasks
               /\ download.consumer = "next"
               /\ \A l \in EventsOf("Zip") : l < k

\* A download of two links has sent Init, both Downloads, both Zips and Done.
C27_Witness ==
    /\ download.pc = "done"
    /\ Cardinality(EventsOf("Zip")) = 2
    /\ download.events[Len(download.events)].kind = "Done"

\* C28: in the reader view the index of a Ready view on a non-empty archive
\* is a page of the archive, whatever keys were pressed, wherever the slider
\* was moved and whichever images arrived; and no message makes update's
\* arithmetic go below 0 (or panic), the archive being empty or not.
C28_IndexInRange ==
    /\ (view.state = "Ready" /\ view.cbz_len > 0) =>
           (0 <= view.index /\ view.index < view.cbz_len)
    /\ ~view.underflow
    /\ ~view.panicked

\* Right was pressed on the last page of an archive of several pages.
C28_Witness ==
    /\ view.state = "Ready" /\ view.last = "Right"
    /\ view.cbz_len >= 2
    /\ view.index = view.cbz_len - 1

\* A key was pressed on the view of an empty archive.
C28_EmptyArchive ==
    /\ view.pc = "running" /\ view.cbz_len = 0
    /\ view.last \in {"Right", "Left"}

\* C29: a search that has finished, with an answer or with an error, has
\* left the loading state (so that the form takes a new search).
C29_SearchLeavesLoading ==
    app.search = "finished" => ~app.manga_search_loading

\* The downloads of a chapter that are in progress.
InProgress(chapter) ==
    { n \in DOMAIN app.downloads :
        /\ app.downloads[n].chapter = chapter
        /\ app.downloads[n].stage \in {"spawned", "running"} }

\* C30: in the manga view at most one download of a chapter is in progress.
C30_OneDownloadPerChapter ==
    \A chapter \in Chapters : Cardinality(InProgress(chapter)) <= 1

====
